---- MODULE Spec2Model ----
(***************************************************************************)
(* fio-matrix: the benchmark sweep controller (src/src/main.rs), the       *)
(* retrying process primitive (src/src/command.rs) and the huge-page       *)
(* sizing arithmetic (src/src/main.rs), as state machines.                 *)
(*                                                                         *)
(*   Spec       run_workloads: pre-sweep, then setup / run / teardown of   *)
(*              every point of every sample; unload_module runs the        *)
(*              spawn_retry machine with retry_max = 3                     *)
(*   SpecRetry  SpawnRetry::spawn_retry on its own, any retry_max          *)
(*   SpecHuge   calculate_nr_hugepages_int and calculate_nr_hugepages      *)
(***************************************************************************)
EXTENDS Integers, Sequences, FiniteSets, TLC

VARIABLES
    \* ---- run_workloads (main.rs:215-301) and what it calls
    config,       \* the Config record, read-only
    pc,           \* position in run_workloads
    configs,      \* the local configs: the cartesian product of the axes
    i,            \* the sample index of `for i in 0..config.samples`
    k,            \* 1-based position in configs of the inner for loop
    status,       \* what run_workloads returned, NoResult while it runs
    ucmd,         \* unload_module: the command spawn_retry is running
    moduleLoaded, \* host: the kernel module is loaded
    cnullDir,     \* host: /sys/kernel/config/nullb/<device> exists
    visited,      \* history: the points whose loop body began, this sample
    hist,         \* history: counters of the calls made so far
    \* ---- SpawnRetry::spawn_retry (command.rs:55-85)
    rpc,          \* position in spawn_retry: idle, call, loop, spawn, wait, sleep, ret, panic
    retry_max,    \* the argument retry_max
    retry_cnt,    \* the local retry_cnt
    rresult,      \* the value returned (or the panic), NoResult while running
    spawns,       \* history: number of calls of self.spawn()
    sleeps,       \* history: number of calls of std::thread::sleep(retry_delay)
    attempts,     \* history: the ExitStatus of every process waited for, in order
    \* ---- calculate_nr_hugepages / calculate_nr_hugepages_int (main.rs:646-698)
    hpc,          \* "int" / "config": which function is to be applied; "done" after
    hargs,        \* <<queue_depth, block_size, jobcount>> of calculate_nr_hugepages_int
    haxes,        \* [jobcounts, block_sizes, queue_depths] of the Config
    hres,         \* the Result<u64> returned, NoResult before
    \* ---- run_single_workload, the supervision of the measurement process
    \* ---- when a remote endpoint is configured (main.rs:422-444)
    spc,          \* position: idle, spawn, check, ping, sleep, try_wait, ret, panic
    now,          \* the clock, in seconds since the process was spawned
    last_ping,    \* the local last_ping, on the same clock
    pings,        \* history: the time every ping was sent at, in order
    pingFailures, \* history: number of pings that returned an Err
    exitTime,     \* host: the time the process exited at, -1 while it runs
    exitStatus,   \* host: the ExitStatus the process exits with
    sresult,      \* the value run_single_workload returned, NoResult before
    \* ---- main and run_test (main.rs:29-86), Config::parse (config.rs:220-251)
    mpc,          \* position in main and run_test
    mresult,      \* the status run_test returned (the Rc of main.rs:35)
    sweepResult,  \* history: what run_workloads returned (main.rs:66)
    shutdownCode, \* history: the code of the shutdown call sent, -1 before
    exitResult,   \* what main returned, NoResult before
    verifies,     \* history: number of calls of Config::verify
    effects,      \* history: the host operations of main and run_test, in order
    \* ---- teardown_cnull (main.rs:560-568) and setup_cnull (main.rs:526-558)
    \* ---- on the control tree /sys/kernel/config/nullb
    device,       \* config.device
    tree,         \* host: what read_dir lists, in order
    tremoved,     \* host: the positions in tree that remove_dir removed
    tpc,          \* position in teardown_cnull: idle, read_dir, entry, returned
    tnext,        \* the position in tree of the entry the loop is at
    tattempted,   \* history: the positions remove_dir was called on
    tres,         \* the value teardown_cnull returned, NoResult before
    cpc,          \* position in setup_cnull: idle, create_dir, write, returned
    cdir,         \* host: setup_cnull created the directory of the device
    cfiles,       \* host: the control files written, in order
    cres,         \* the value setup_cnull returned, NoResult before
    \* ---- set_nr_hugepages (main.rs:630-644) as run_workloads calls it
    \* ---- (main.rs:256-258)
    ppc,          \* position: idle, call, write, read, compare, returned
    pnr,          \* the argument nr
    pool,         \* host: the number of huge pages of the kernel's pool
    pwritten,     \* history: the bytes written to /proc/sys/vm/nr_hugepages
    pdata,        \* the local data: the bytes read back
    pres,         \* the value set_nr_hugepages returned, NoResult before
    \* ---- MemoryAppender (logging.rs:82-116): a thread that logs and a
    \* ---- thread that takes the data (push_log, main.rs:125-135)
    buffer,       \* the bytes of self.buffer, behind the mutex
    mutex,        \* the holder of the mutex: free, log, data
    lpc,          \* position in log(): idle, locked
    lrecord,      \* the encoded bytes of the record log() was called with
    dpc,          \* position in data(): idle, locked, swapped
    new_buffer,   \* the local new_buffer of data()
    logged,       \* history: the bytes of every record logged, in order
    delivered     \* history: what every call of data() returned, in order

sweepVars == <<config, pc, configs, i, k, status, ucmd, moduleLoaded, cnullDir, visited, hist>>
retryVars == <<rpc, retry_max, retry_cnt, rresult, spawns, sleeps, attempts>>
hugeVars  == <<hpc, hargs, haxes, hres>>
supVars   == <<spc, now, last_ping, pings, pingFailures, exitTime, exitStatus, sresult>>
mainVars  == <<mpc, mresult, sweepResult, shutdownCode, exitResult, verifies, effects>>
cnullVars == <<device, tree, tremoved, tpc, tnext, tattempted, tres, cpc, cdir, cfiles, cres>>
pagesVars == <<ppc, pnr, pool, pwritten, pdata, pres>>
logVars   == <<buffer, mutex, lpc, lrecord, dpc, new_buffer, logged, delivered>>
auxVars   == <<cnullVars, pagesVars, logVars>>
vars      == <<sweepVars, retryVars, hugeVars, supVars, mainVars, auxVars>>

----------------------------------------------------------------------------
\* Bounds of the model.

\* Largest config.samples.
MaxSamples == 2
\* Longest axis (block_sizes, jobcounts, workloads, queue_depths) of a sweep.
MaxAxis == 2
\* Largest retry_max passed to spawn_retry in SpecRetry.
MaxRetry == 4
\* Exit codes of a failing process are 1..MaxExitCode.
MaxExitCode == 2
\* Queue depths handed to calculate_nr_hugepages_int are 2^0 .. 2^MaxQDShift.
MaxQDShift == 7
\* Block sizes handed to calculate_nr_hugepages_int are 512 * 2^0 .. 512 * 2^MaxBSShift,
\* and the sizes up to MaxDelta bytes past (2 MiB - 4 KiB).
MaxBSShift == 15
MaxDelta == 2
\* Job counts handed to calculate_nr_hugepages_int are 1..MaxJobs.
MaxJobs == 6
\* Longest axis (jobcounts, block_sizes, queue_depths) of a Config in SpecHuge.
MaxAxisLen == 2
\* the measurement process has exited MaxClock seconds after its spawn
MaxClock == 125
\* a 1-second sleep takes up to MaxOvershoot seconds more
MaxOvershoot == 1
\* a ping takes up to MaxPingTime seconds
MaxPingTime == 1

----------------------------------------------------------------------------
\* Result<T, anyhow::Error> values.
\*   kind  none (nothing returned yet), ok, err, panic (the thread unwinds)
\*   what  the error's own message, or what panicked
\*   code  the payload: the exit code of a failed process, the u64 of Ok(u64)
\*   ctx   the .context(..) strings wrapped around the error, outermost first

NoResult == [kind |-> "none", what |-> "", code |-> 0, ctx |-> << >>]
Ok(v)    == [kind |-> "ok", what |-> "", code |-> v, ctx |-> << >>]
Err(w)   == [kind |-> "err", what |-> w, code |-> 0, ctx |-> << >>]
\* anyhow!("Proccess failed: {}", code)
ProcessFailed(c) == [kind |-> "err", what |-> "Proccess failed", code |-> c, ctx |-> << >>]
Panic(w) == [kind |-> "panic", what |-> w, code |-> 0, ctx |-> << >>]

IsOk(r)    == r.kind = "ok"
IsErr(r)   == r.kind = "err"
IsPanic(r) == r.kind = "panic"

\* anyhow::Context::context on a Result: an Err gains one outer context
Context(r, c) == IF IsErr(r) THEN [r EXCEPT !.ctx = <<c>> \o @] ELSE r

----------------------------------------------------------------------------
\* std::process::ExitStatus: a process exited with a code, or was killed by a
\* signal (then ExitStatus::code() is None).

Exited(c) == [how |-> "exited", code |-> c]
Signaled  == [how |-> "signaled", code |-> -1]
ExitStatuses == {Exited(c) : c \in 0..MaxExitCode} \cup {Signaled}

\* ExitStatus::success()
success(st) == st.how = "exited" /\ st.code = 0

\* CheckExitCode::check_status (command.rs:93-101): Ok for a successful exit,
\* Err("Proccess failed: <code>") for an exit code, and self.code().unwrap()
\* panics when there is no exit code.
check_status(st) ==
    IF success(st) THEN Ok(0)
    ELSE IF st.how = "exited" THEN ProcessFailed(st.code)
    ELSE Panic("unwrap")

\* What command.spawn()?.wait()?.check_status() can evaluate to: spawn or
\* wait fails with an io::Error, or check_status of the exit status.
CommandOutcomes == {check_status(st) : st \in ExitStatuses} \cup {Err("io")}

----------------------------------------------------------------------------
\* SpawnRetry::spawn_retry (command.rs:55-85)

\* command.rs:60-64 without the check of retry_max
RetryCallNoCheck ==
    /\ rpc = "call"
    /\ retry_cnt' = 0
    /\ rpc' = "loop"
    /\ UNCHANGED <<retry_max, rresult, spawns, sleeps, attempts>>
    /\ UNCHANGED <<sweepVars, hugeVars, supVars, mainVars, auxVars>>

\* command.rs:60-64
RetryCall ==
    /\ rpc = "call"
    /\ IF retry_max = 0
       THEN /\ rresult' = Err("Invalid retry count value")
            /\ rpc' = "ret"
            /\ UNCHANGED retry_cnt
       ELSE /\ retry_cnt' = 0
            /\ rpc' = "loop"
            /\ UNCHANGED rresult
    /\ UNCHANGED <<retry_max, spawns, sleeps, attempts>>
    /\ UNCHANGED <<sweepVars, hugeVars, supVars, mainVars, auxVars>>

\* command.rs:66 and 84: the loop condition, and unreachable!() after the loop
RetryLoop ==
    /\ rpc = "loop"
    /\ IF retry_cnt < retry_max
       THEN /\ rpc' = "spawn"
            /\ UNCHANGED rresult
       ELSE /\ rpc' = "panic"
            /\ rresult' = Panic("unreachable")
    /\ UNCHANGED <<retry_max, retry_cnt, spawns, sleeps, attempts>>
    /\ UNCHANGED <<sweepVars, hugeVars, supVars, mainVars, auxVars>>

\* command.rs:68, self.spawn()?: the process starts, or the io::Error is returned
RetrySpawn ==
    /\ rpc = "spawn"
    /\ spawns' = spawns + 1
    /\ \E started \in BOOLEAN :
         IF started
         THEN /\ rpc' = "wait"
              /\ UNCHANGED rresult
         ELSE /\ rpc' = "ret"
              /\ rresult' = Err("io")
    /\ UNCHANGED <<retry_max, retry_cnt, sleeps, attempts>>
    /\ UNCHANGED <<sweepVars, hugeVars, supVars, mainVars, auxVars>>

\* command.rs:76 with the comparison off by one
LastAttemptOffByOne(cnt, max) == cnt > max

\* command.rs:76: this was the last attempt
LastAttempt(cnt, max) == cnt = max

\* command.rs:68-81, .wait()?.check_status() and the match on it
RetryWait ==
    /\ rpc = "wait"
    /\ \E st \in ExitStatuses :
         LET r == check_status(st) IN
         /\ attempts' = Append(attempts, st)
         /\ IF IsOk(r)
            THEN /\ rresult' = r
                 /\ rpc' = "ret"
                 /\ UNCHANGED retry_cnt
            ELSE IF IsPanic(r)
            THEN /\ rresult' = r
                 /\ rpc' = "panic"
                 /\ UNCHANGED retry_cnt
            ELSE /\ retry_cnt' = retry_cnt + 1
                 /\ IF LastAttempt(retry_cnt', retry_max)
                    THEN /\ rresult' = r
                         /\ rpc' = "ret"
                    ELSE /\ rpc' = "sleep"
                         /\ UNCHANGED rresult
    /\ UNCHANGED <<retry_max, spawns, sleeps>>
    /\ UNCHANGED <<sweepVars, hugeVars, supVars, mainVars, auxVars>>

\* command.rs:68, .wait()? fails with an io::Error
RetryWaitError ==
    /\ rpc = "wait"
    /\ rresult' = Err("io")
    /\ rpc' = "ret"
    /\ UNCHANGED <<retry_max, retry_cnt, spawns, sleeps, attempts>>
    /\ UNCHANGED <<sweepVars, hugeVars, supVars, mainVars, auxVars>>

\* command.rs:79 left out: the next attempt follows without a delay
RetrySleepNoDelay ==
    /\ rpc = "sleep"
    /\ rpc' = "loop"
    /\ UNCHANGED <<retry_max, retry_cnt, rresult, spawns, sleeps, attempts>>
    /\ UNCHANGED <<sweepVars, hugeVars, supVars, mainVars, auxVars>>

\* command.rs:79
RetrySleep ==
    /\ rpc = "sleep"
    /\ sleeps' = sleeps + 1
    /\ rpc' = "loop"
    /\ UNCHANGED <<retry_max, retry_cnt, rresult, spawns, attempts>>
    /\ UNCHANGED <<sweepVars, hugeVars, supVars, mainVars, auxVars>>

\* No spawn_retry is running
RetryIdle ==
    /\ rpc = "idle"
    /\ retry_max = 0
    /\ retry_cnt = 0
    /\ rresult = NoResult
    /\ spawns = 0
    /\ sleeps = 0
    /\ attempts = << >>

----------------------------------------------------------------------------
\* Huge-page sizing (main.rs:646-698)
\*
\* The arithmetic is u64.  A u64 is kept as <<hi, lo>> = hi * 2^21 + lo with
\* 0 <= lo < 2^21, so that 128 * 16 MiB = 2^31 and its multiples are exact;
\* within the bounds of the model no value reaches 2^64, so no operation wraps.

Pow2(n) == 2 ^ n

\* main.rs:682-685
page_size      == Pow2(10) * 4
huge_page_size == Pow2(20) * 2
page_mask      == page_size - 1
huge_page_mask == huge_page_size - 1

U64(hi, lo) == <<hi + (lo \div huge_page_size), lo % huge_page_size>>
\* a * n for a u32 n; both a's lo * n and the byte count a of a block size fit
U64Mul(a, n) == U64(a[1] * n, a[2] * n)
U64Add(a, n) == U64(a[1], a[2] + n)
\* a & !huge_page_mask: the low 21 bits cleared
U64AndNotHugeMask(a) == <<a[1], 0>>
\* a.div_ceil(huge_page_size)
U64DivCeilHuge(a) == a[1] + (IF a[2] > 0 THEN 1 ELSE 0)

\* main.rs:687-689 alone: one rounding, the second page mask not added
PerJobMemSimplified(queue_depth, block_size) ==
    LET m0 == U64Mul(U64(0, block_size), queue_depth)
        m1 == U64Add(m0, page_mask)
    IN  U64AndNotHugeMask(U64Add(m1, huge_page_mask))

\* main.rs:687-690: the second rounding (main.rs:691) left out
PerJobMemRoundedOnce(queue_depth, block_size) ==
    LET m0 == U64Mul(U64(0, block_size), queue_depth)
        m1 == U64Add(m0, page_mask)
        m2 == U64AndNotHugeMask(U64Add(m1, huge_page_mask))
    IN  U64Add(m2, page_mask)

\* main.rs:687-691
PerJobMem(queue_depth, block_size) ==
    LET m0 == U64Mul(U64(0, block_size), queue_depth)
        m1 == U64Add(m0, page_mask)
        m2 == U64AndNotHugeMask(U64Add(m1, huge_page_mask))
        m3 == U64Add(m2, page_mask)
    IN  U64AndNotHugeMask(U64Add(m3, huge_page_mask))

\* main.rs:678-698
calculate_nr_hugepages_int(queue_depth, block_size, jobcount) ==
    LET per_job_mem == PerJobMem(queue_depth, block_size)
        required_mem == U64Mul(per_job_mem, jobcount)
        num_pages == U64DivCeilHuge(required_mem)
    IN  Ok(num_pages)

\* A block size string of the configuration: a decimal number and a unit.
\* byte_unit::Byte::parse_str(s, _).as_u64(): the units with an i are the
\* binary ones, a bare k is the decimal kilo of byte_unit (Unit::KB, 10^3).
UnitBytes(u) ==
    CASE u = ""    -> 1
      [] u = "k"   -> 10 ^ 3
      [] u = "KiB" -> Pow2(10)
      [] u = "MiB" -> Pow2(20)

ParseBytes(s) == s.num * UnitBytes(s.unit)

\* Iterator::max over a non-empty sequence of integers
SeqMax(s) == CHOOSE m \in {s[n] : n \in DOMAIN s} : \A n \in DOMAIN s : s[n] <= m

\* The block size with the largest number in front of its unit, in bytes
MaxBlockSizeByNumber(block_sizes) ==
    LET m == SeqMax([n \in DOMAIN block_sizes |-> block_sizes[n].num])
    IN  ParseBytes(CHOOSE s \in {block_sizes[n] : n \in DOMAIN block_sizes} : s.num = m)

\* main.rs:655-665: every block size parsed to bytes, then the maximum
MaxBlockSize(block_sizes) ==
    SeqMax([n \in DOMAIN block_sizes |-> ParseBytes(block_sizes[n])])

\* main.rs:646-676
calculate_nr_hugepages(cfg) ==
    IF cfg.jobcounts = << >> THEN Err("jobcounts empty")
    ELSE IF cfg.block_sizes = << >> THEN Err("block_sizes empty")
    ELSE IF cfg.queue_depths = << >> THEN Err("queue_depths empty")
    ELSE calculate_nr_hugepages_int(SeqMax(cfg.queue_depths),
                                    MaxBlockSize(cfg.block_sizes),
                                    SeqMax(cfg.jobcounts))

\* Inputs of calculate_nr_hugepages_int
InQueueDepths == {Pow2(n) : n \in 0..MaxQDShift}
InBlockSizes ==
    {512 * Pow2(n) : n \in 0..MaxBSShift}
    \cup {huge_page_size - page_size + d : d \in 0..MaxDelta}
InJobCounts == 1..MaxJobs

\* Inputs of calculate_nr_hugepages: the axes of a Config
SeqsUpTo(S, n) == UNION {[1..m -> S] : m \in 0..n}
AxisJobCounts == {1, 6}
AxisQueueDepths == {1, 128}
AxisBlockSizes ==
    {[num |-> 512, unit |-> ""], [num |-> 32, unit |-> "KiB"], [num |-> 16, unit |-> "MiB"]}
NoAxes == [jobcounts |-> << >>, block_sizes |-> << >>, queue_depths |-> << >>]
NoArgs == <<0, 0, 0>>

HugeIdle ==
    /\ hpc = "idle"
    /\ hargs = NoArgs
    /\ haxes = NoAxes
    /\ hres = NoResult

\* calculate_nr_hugepages_int applied to hargs
CalcInt ==
    /\ hpc = "int"
    /\ hres' = calculate_nr_hugepages_int(hargs[1], hargs[2], hargs[3])
    /\ hpc' = "done"
    /\ UNCHANGED <<hargs, haxes>>
    /\ UNCHANGED <<sweepVars, retryVars, supVars, mainVars, auxVars>>

\* calculate_nr_hugepages applied to the axes haxes
CalcConfig ==
    /\ hpc = "config"
    /\ hres' = calculate_nr_hugepages(haxes)
    /\ hpc' = "done"
    /\ UNCHANGED <<hargs, haxes>>
    /\ UNCHANGED <<sweepVars, retryVars, supVars, mainVars, auxVars>>

----------------------------------------------------------------------------
\* The configuration (config.rs:135-193), the fields run_workloads reads more
\* than once.  module and remote are Options: TRUE stands for Some(..).  A
\* block size is a string, kept as its number and its unit.  The fields read
\* at one place only (device, the tuning flags) are chosen where they are read.

\* Config::verify without the check of config.rs:201-203
verifyWithoutModuleCheck(cfg) ==
    IF cfg.insmod /\ cfg.modprobe
    THEN Err("Cannot set insmod and probe at the same time")
    ELSE IF cfg.compress /\ ~cfg.capture
    THEN Err("Cannot compress without capture")
    ELSE IF cfg.remote /\ ~cfg.compress
    THEN Err("Cannot upload without compress")
    ELSE IF cfg.remote /\ ~cfg.capture
    THEN Err("Cannot upload without capture")
    ELSE Ok(0)

\* Config::verify without the checks of config.rs:205-207 and 213-215
verifyWithoutCaptureChecks(cfg) ==
    IF cfg.insmod /\ cfg.modprobe
    THEN Err("Cannot set insmod and probe at the same time")
    ELSE IF cfg.module /\ ~(cfg.insmod \/ cfg.modprobe)
    THEN Err("Missing insmod or modprobe option")
    ELSE IF cfg.remote /\ ~cfg.compress
    THEN Err("Cannot upload without compress")
    ELSE Ok(0)

\* Config::verify (config.rs:196-218)
verify(cfg) ==
    IF cfg.insmod /\ cfg.modprobe
    THEN Err("Cannot set insmod and probe at the same time")
    ELSE IF cfg.module /\ ~(cfg.insmod \/ cfg.modprobe)
    THEN Err("Missing insmod or modprobe option")
    ELSE IF cfg.compress /\ ~cfg.capture
    THEN Err("Cannot compress without capture")
    ELSE IF cfg.remote /\ ~cfg.compress
    THEN Err("Cannot upload without compress")
    ELSE IF cfg.remote /\ ~cfg.capture
    THEN Err("Cannot upload without capture")
    ELSE Ok(0)

WorkloadNames == <<"read", "write", "randread", "randwrite">>
\* "4k" as in Config::default (config.rs:264), then "8KiB"
BlockSizeAxis(n)  ==
    [m \in 1..n |-> [num |-> 4 * m, unit |-> IF m = 1 THEN "k" ELSE "KiB"]]
JobCountAxis(n)   == [m \in 1..n |-> m]
WorkloadAxis(n)   == [m \in 1..n |-> WorkloadNames[m]]
QueueDepthAxis(n) == [m \in 1..n |-> Pow2(m - 1)]

\* The flags of a configuration: every combination Config::verify accepts
Flags ==
    {f \in [prep : BOOLEAN,
            module : BOOLEAN,
            insmod : BOOLEAN,
            modprobe : BOOLEAN,
            module_reload_policy : {"Always", "Once"},
            configure_c_nullblk : BOOLEAN,
            capture : BOOLEAN,
            compress : BOOLEAN,
            remote : BOOLEAN] : IsOk(verify(f))}

\* Config::default (config.rs:254-286), its flags
DefaultFlags ==
    [prep |-> FALSE, module |-> FALSE, insmod |-> FALSE, modprobe |-> FALSE,
     module_reload_policy |-> "Always", configure_c_nullblk |-> FALSE,
     capture |-> FALSE, compress |-> FALSE, remote |-> FALSE]

\* The lengths of the four axes: every shape up to MaxAxis, and the shapes
\* with at most one axis longer than 1
Shapes == [1..4 -> 1..MaxAxis]
ThinShapes == {sh \in Shapes : Cardinality({a \in 1..4 : sh[a] > 1}) <= 1}

WithAxes(f, samples, sh) ==
    [samples |-> samples,
     block_sizes |-> BlockSizeAxis(sh[1]),
     jobcounts |-> JobCountAxis(sh[2]),
     workloads |-> WorkloadAxis(sh[3]),
     queue_depths |-> QueueDepthAxis(sh[4]),
     prep |-> f.prep, module |-> f.module, insmod |-> f.insmod,
     modprobe |-> f.modprobe, module_reload_policy |-> f.module_reload_policy,
     configure_c_nullblk |-> f.configure_c_nullblk, capture |-> f.capture,
     compress |-> f.compress, remote |-> f.remote]

\* The configurations of the model: every accepted combination of flags on
\* the thin shapes, and the default flags on every shape
Configs ==
    {WithAxes(f, n, sh) : f \in Flags, n \in 1..MaxSamples, sh \in ThinShapes}
    \cup {WithAxes(DefaultFlags, n, sh) : n \in 1..MaxSamples, sh \in Shapes}

----------------------------------------------------------------------------
\* run_workloads (main.rs:215-301)

\* The pairs of a and b with b as the outer axis
cartesian_product_inner_first(a, b) ==
    [n \in 1..(Len(a) * Len(b)) |->
        <<a[((n - 1) % Len(a)) + 1], b[((n - 1) \div Len(a)) + 1]>>]

\* itertools cartesian_product: every element of a, in order, paired with
\* every element of b, in order
RECURSIVE cartesian_product(_, _)
cartesian_product(a, b) ==
    IF a = << >> THEN << >>
    ELSE [n \in 1..Len(b) |-> <<Head(a), b[n]>>] \o cartesian_product(Tail(a), b)

\* main.rs:222-229
Product(cfg) ==
    cartesian_product(
        cartesian_product(
            cartesian_product(cfg.block_sizes, cfg.jobcounts),
            cfg.workloads),
        cfg.queue_depths)

\* main.rs:275, the pattern (((block_size, jobcount), workload), queue_depth)
Point(c) ==
    [block_size |-> c[1][1][1], jobcount |-> c[1][1][2],
     workload |-> c[1][2], queue_depth |-> c[2]]

\* No benchmark command built yet
NoCommand == [name |-> "", readwrite |-> "", blocksize |-> 0, numjobs |-> 0,
              iodepth |-> 0, stdout |-> "", stderr |-> ""]

\* Command::stdout (command.rs:35-38)
stdout(command, cfg) == [command EXCEPT !.stdout = cfg]

\* Command::stderr (command.rs:40-43): it calls self.command.stdout(cfg)
stderr(command, cfg) == [command EXCEPT !.stdout = cfg]

\* main.rs:338-342 and 414-418: with capture, .stdout(File::create(out)?)
\* and then .stderr(File::create(err)?); a new command inherits both streams
Capture(command, capture, out, err) ==
    IF capture THEN stderr(stdout(command, out), err) ELSE command

\* The prep command (main.rs:330-342): --name=prep --rw=write --bs=4k, read
\* by fio as 4096
PrepCommand(cfg) ==
    Capture([name |-> "prep", readwrite |-> "write", blocksize |-> 4096,
             numjobs |-> 1, iodepth |-> 1,
             stdout |-> "inherit", stderr |-> "inherit"],
            cfg.capture, "-prep.stdout", "-prep.stderr")

\* The measurement command of a point (main.rs:349-376, 408-418): the
\* arguments that depend on the point, the block size in bytes
FioCommand(cfg, p) ==
    Capture([name |-> "default", readwrite |-> p.workload,
             blocksize |-> ParseBytes(p.block_size), numjobs |-> p.jobcount,
             iodepth |-> p.queue_depth,
             stdout |-> "inherit", stderr |-> "inherit"],
            cfg.capture, ".stdout", ".stderr")

NoHist ==
    [loads |-> 0, unloads |-> 0, unloadsAfterLoad |-> 0, setups |-> 0,
     preps |-> 0, measures |-> 0, teardowns |-> 0, completed |-> 0,
     cnullCalls |-> 0, fio |-> NoCommand, prep |-> NoCommand,
     stages |-> << >>]

\* run_test, main.rs:45-48: output_dir is Some(..) exactly when output is
\* captured.  TRUE stands for Some(..).
output_dir(cfg) == cfg.capture

\* run_test, main.rs:50-54: mem_log is what setup_log returns with
\* memory_log = true (logging.rs:65-73), Some(..), when output is captured,
\* and None otherwise
mem_log(cfg) == cfg.capture

\* Option::unwrap in the argument of a call: the call evaluates to one of rs
\* on Some(..), and the process panics before the call on None
unwrap(opt, name, rs) == IF opt THEN rs ELSE {Panic(name)}

\* An Err that is recorded but does not return: the run goes on at next
FinishContinues(r, next) ==
    /\ pc' = IF IsPanic(r) THEN "panicked" ELSE next
    /\ status' = IF IsOk(r) THEN status ELSE r

\* A `?`: an Ok goes on at next, an Err returns from run_workloads, a panic
\* ends the process.
Finish(r, next) ==
    IF IsOk(r)
    THEN /\ pc' = next
         /\ UNCHANGED status
    ELSE /\ pc' = IF IsPanic(r) THEN "panicked" ELSE "done"
         /\ status' = r

\* main.rs:222-229
Start ==
    /\ pc = "start"
    /\ configs' = Product(config)
    /\ pc' = "pre_cnull"
    /\ UNCHANGED <<config, i, k, status, ucmd, moduleLoaded, cnullDir, visited, hist>>
    /\ UNCHANGED <<retryVars, hugeVars, supVars, mainVars, auxVars>>

\* main.rs:231-233: teardown_cnull (main.rs:560-568) when the device is nullb0,
\* its result dropped
PreTeardownCnull ==
    /\ pc = "pre_cnull"
    /\ \E nullb0 \in BOOLEAN, removed \in BOOLEAN :
         cnullDir' = IF nullb0 /\ removed THEN FALSE ELSE cnullDir
    /\ pc' = "pre_unload"
    /\ UNCHANGED <<config, configs, i, k, status, ucmd, moduleLoaded, visited, hist>>
    /\ UNCHANGED <<retryVars, hugeVars, supVars, mainVars, auxVars>>

\* load_module (main.rs:481-504): the commands it runs, in order
LoadCommands(cfg) ==
    IF cfg.module
    THEN (IF cfg.insmod THEN <<"insmod">> ELSE << >>)
         \o (IF cfg.modprobe THEN <<"modprobe">> ELSE << >>)
    ELSE << >>

\* unload_module (main.rs:506-524): the commands it runs under spawn_retry
UnloadCommands(cfg) ==
    IF cfg.module
    THEN (IF cfg.insmod THEN <<"rmmod">> ELSE << >>)
         \o (IF cfg.modprobe THEN <<"modprobe -r">> ELSE << >>)
    ELSE << >>

\* load_module (main.rs:481-504) when command n evaluates to outs[n]: the
\* first command that does not succeed ends it
load_module(cfg, outs) ==
    LET cmds == LoadCommands(cfg)
        bad == {n \in 1..Len(cmds) : ~IsOk(outs[n])}
        first == IF bad = {} THEN Len(cmds) + 1
                 ELSE CHOOSE n \in bad : \A m \in bad : n <= m
    IN  [result |-> IF bad = {} THEN Ok(0) ELSE outs[first],
         spawned |-> IF bad = {} THEN Len(cmds) ELSE first,
         loaded |-> first > 1]

\* A call load_module(config).context(ctx[Len])...context(ctx[1])?, recorded
\* as the stages stage of the point
Load(ctx, next, stage) ==
    \E outs \in [1..Len(LoadCommands(config)) -> CommandOutcomes] :
        LET l == load_module(config, outs) IN
        /\ hist' = [hist EXCEPT !.loads = @ + l.spawned, !.stages = @ \o stage]
        /\ moduleLoaded' = (moduleLoaded \/ l.loaded)
        /\ Finish([l.result EXCEPT !.ctx = IF IsErr(l.result) THEN ctx ELSE @], next)

\* unload_module begins (main.rs:506-512): spawn_retry(3, 1 s) on its first
\* command; with no command it returns Ok at once
UnloadBegin(next) ==
    IF UnloadCommands(config) = << >>
    THEN /\ pc' = next
         /\ UNCHANGED <<ucmd, hist, retryVars>>
    ELSE /\ ucmd' = 1
         /\ hist' = [hist EXCEPT !.unloads = @ + 1,
                                 !.unloadsAfterLoad = @ + (IF hist.loads > 0 THEN 1 ELSE 0)]
         /\ rpc' = "call"
         /\ retry_max' = 3
         /\ UNCHANGED <<pc, retry_cnt, rresult, spawns, sleeps, attempts>>

\* main.rs:234: let _ = unload_module(config)
PreUnload ==
    /\ pc = "pre_unload"
    /\ rpc = "idle"
    /\ UnloadBegin("load_once")
    /\ UNCHANGED <<config, configs, i, k, status, moduleLoaded, cnullDir, visited>>
    /\ UNCHANGED <<hugeVars, supVars, mainVars, auxVars>>

\* teardown unloading whatever the policy
TeardownUnloadsAlways(policy) == TRUE

\* teardown, main.rs:474: the per-point unload is for the Always policy only
TeardownUnloads(policy) == policy = "Always"

\* teardown, main.rs:474-476
TeardownUnload ==
    /\ pc = "teardown_unload"
    /\ rpc = "idle"
    /\ IF TeardownUnloads(config.module_reload_policy)
       THEN UnloadBegin("push_log")
       ELSE /\ pc' = "push_log"
            /\ UNCHANGED <<ucmd, hist, retryVars>>
    /\ UNCHANGED <<config, configs, i, k, status, moduleLoaded, cnullDir, visited>>
    /\ UNCHANGED <<hugeVars, supVars, mainVars, auxVars>>

\* spawn_retry has returned to unload_module (main.rs:512-521), and
\* unload_module to its caller: main.rs:234 drops the result, teardown
\* (main.rs:475) and run_workloads (main.rs:292) pass an Err on
UnloadReturn ==
    /\ pc \in {"pre_unload", "teardown_unload"}
    /\ rpc = "ret"
    /\ moduleLoaded' = IF IsOk(rresult) THEN FALSE ELSE moduleLoaded
    /\ IF IsOk(rresult) /\ ucmd < Len(UnloadCommands(config))
       THEN /\ ucmd' = ucmd + 1
            /\ rpc' = "call"
            /\ UNCHANGED <<pc, status>>
       ELSE /\ ucmd' = 0
            /\ rpc' = "idle"
            /\ IF pc = "pre_unload"
               THEN /\ pc' = "load_once"
                    /\ UNCHANGED status
               ELSE Finish(Context(rresult, "Failed to tear down module"), "push_log")
    /\ retry_max' = IF rpc' = "idle" THEN 0 ELSE retry_max
    /\ retry_cnt' = 0
    /\ rresult' = NoResult
    /\ spawns' = 0
    /\ sleeps' = 0
    /\ attempts' = << >>
    /\ UNCHANGED <<config, configs, i, k, cnullDir, visited, hist>>
    /\ UNCHANGED <<hugeVars, supVars, mainVars, auxVars>>

\* spawn_retry has panicked: the process ends
UnloadPanic ==
    /\ pc \in {"pre_unload", "teardown_unload"}
    /\ rpc = "panic"
    /\ pc' = "panicked"
    /\ status' = rresult
    /\ UNCHANGED <<config, configs, i, k, ucmd, moduleLoaded, cnullDir, visited, hist>>
    /\ UNCHANGED <<retryVars, hugeVars, supVars, mainVars, auxVars>>

\* main.rs:236-238
LoadOnce ==
    /\ pc = "load_once"
    /\ IF config.module_reload_policy = "Once"
       THEN Load(<<"Load module once">>, "tune_pstate", << >>)
       ELSE /\ pc' = "tune_pstate"
            /\ UNCHANGED <<status, moduleLoaded, hist>>
    /\ UNCHANGED <<config, configs, i, k, ucmd, cnullDir, visited>>
    /\ UNCHANGED <<retryVars, hugeVars, supVars, mainVars, auxVars>>

\* main.rs:240-258: the sweep-wide tuning steps, in order, with the context
\* each failure is reported under
TuneSteps ==
    <<[pc |-> "tune_pstate",      ctx |-> <<"failed to configure amd-pstate">>],
      [pc |-> "tune_governor",    ctx |-> <<"failed to set cpu frequency governor">>],
      [pc |-> "tune_boost_amd",   ctx |-> <<"failed to disable amd boost">>],
      [pc |-> "tune_boost_intel", ctx |-> <<"failed to disable intel turbo">>],
      [pc |-> "tune_hugepages",   ctx |-> << >>]>>

\* What a tuning step can evaluate to: amd_pstate_fixed_3ghz (main.rs:606-614)
\* and set_governor (main.rs:594-604) run cpupower and write files, the boost
\* steps (main.rs:616-628) write one file, and main.rs:257 is
\* set_nr_hugepages(calculate_nr_hugepages(config)?)? (main.rs:630-676)
TuneOutcomes(step) ==
    CASE step \in {"tune_pstate", "tune_governor"} -> CommandOutcomes
      [] step \in {"tune_boost_amd", "tune_boost_intel"} -> {Ok(0), Err("io")}
      [] step = "tune_hugepages" ->
            IF IsOk(calculate_nr_hugepages(config))
            THEN {Ok(0), Err("io"), Err("Failed to set number of huge pages")}
            ELSE {calculate_nr_hugepages(config)}

\* main.rs:240-258: one tuning step; its flag is read here and nowhere else
\* in run_workloads, so it is chosen here
Tune ==
    \E n \in DOMAIN TuneSteps :
        /\ pc = TuneSteps[n].pc
        /\ \E enabled \in BOOLEAN, r \in TuneOutcomes(pc) :
             Finish(IF enabled THEN [r EXCEPT !.ctx = IF IsErr(r) THEN TuneSteps[n].ctx ELSE @]
                               ELSE Ok(0),
                    IF n < Len(TuneSteps) THEN TuneSteps[n + 1].pc ELSE "new_bar")
        /\ UNCHANGED <<config, configs, i, k, ucmd, moduleLoaded, cnullDir, visited, hist>>
        /\ UNCHANGED <<retryVars, hugeVars, supVars, mainVars, auxVars>>

\* main.rs:260-266: new_bar (main.rs:205-213) sets a style template when
\* stdout is a terminal and output is captured, and is hidden otherwise
NewBar ==
    /\ pc = "new_bar"
    /\ \E r \in IF config.capture THEN {Ok(0), Err("template")} ELSE {Ok(0)} :
         Finish(Context(r, "Failed to set up progress bar"), "sample")
    /\ UNCHANGED <<config, configs, i, k, ucmd, moduleLoaded, cnullDir, visited, hist>>
    /\ UNCHANGED <<retryVars, hugeVars, supVars, mainVars, auxVars>>

\* main.rs:268-274: the head of the sample loop, and get_run_dir
\* (main.rs:194-203) when output is captured
Sample ==
    /\ pc = "sample"
    /\ IF i < config.samples
       THEN /\ \E r \in IF config.capture THEN {Ok(0), Err("failed to create run dir")}
                                          ELSE {Ok(0)} :
                 Finish(Context(r, "Failed to get run dir"), "point")
            /\ k' = 1
            /\ visited' = << >>
       ELSE /\ pc' = "done"
            /\ status' = Ok(0)
            /\ UNCHANGED <<k, visited>>
    /\ UNCHANGED <<config, configs, i, ucmd, moduleLoaded, cnullDir, hist>>
    /\ UNCHANGED <<retryVars, hugeVars, supVars, mainVars, auxVars>>

\* main.rs:275-281: the head of the loop over configs
NextPoint ==
    /\ pc = "point"
    /\ IF k <= Len(configs)
       THEN /\ visited' = Append(visited, Point(configs[k]))
            /\ hist' = [hist EXCEPT !.stages = << >>]
            /\ pc' = "setup_load"
            /\ UNCHANGED i
       ELSE /\ i' = i + 1
            /\ pc' = "sample"
            /\ UNCHANGED <<visited, hist>>
    /\ UNCHANGED <<config, configs, k, status, ucmd, moduleLoaded, cnullDir>>
    /\ UNCHANGED <<retryVars, hugeVars, supVars, mainVars, auxVars>>

\* setup loading under the other policy
SetupLoadsInverted(policy) == policy = "Once"

\* setup, main.rs:455: the per-point load is for the Always policy only
SetupLoads(policy) == policy = "Always"

\* setup, main.rs:455-457, under run_workloads' context (main.rs:282)
SetupLoad ==
    /\ pc = "setup_load"
    /\ IF SetupLoads(config.module_reload_policy)
       THEN Load(<<"Failed to set up module", "Load module always">>, "setup_cnull",
                 <<"load">>)
       ELSE /\ pc' = "setup_cnull"
            /\ UNCHANGED <<status, moduleLoaded, hist>>
    /\ UNCHANGED <<config, configs, i, k, ucmd, cnullDir, visited>>
    /\ UNCHANGED <<retryVars, hugeVars, supVars, mainVars, auxVars>>

\* setup, main.rs:459-461: setup_cnull (main.rs:526-558).  create_dir fails
\* when the directory exists, and may fail otherwise; a control file write
\* that fails leaves the directory behind.
SetupCnull ==
    /\ pc = "setup_cnull"
    /\ IF config.configure_c_nullblk
       THEN \E out \in IF cnullDir THEN {"create_dir"}
                                   ELSE {"create_dir", "write", "ok"} :
              /\ cnullDir' = (cnullDir \/ out # "create_dir")
              /\ hist' = [hist EXCEPT !.cnullCalls = @ + 1,
                                      !.stages = Append(@, "cnull")]
              /\ Finish(IF out = "ok" THEN Ok(0)
                        ELSE [Err("io") EXCEPT !.ctx =
                                <<"Failed to set up module", "setup cnull",
                                  IF out = "create_dir" THEN "create debugfs folder"
                                                        ELSE "open control file">>],
                        "setup_sched")
       ELSE /\ pc' = "setup_sched"
            /\ UNCHANGED <<status, cnullDir, hist>>
    /\ UNCHANGED <<config, configs, i, k, ucmd, moduleLoaded, visited>>
    /\ UNCHANGED <<retryVars, hugeVars, supVars, mainVars, auxVars>>

\* setup, main.rs:463: set_block_scheduler (main.rs:570-580)
SetupScheduler ==
    /\ pc = "setup_sched"
    /\ \E r \in {Ok(0), Err("io")} :
         Finish([r EXCEPT !.ctx = IF IsErr(r)
                    THEN <<"Failed to set up module", "Set block scheduler">> ELSE @],
                "setup_iostats")
    /\ hist' = [hist EXCEPT !.stages = Append(@, "scheduler")]
    /\ UNCHANGED <<config, configs, i, k, ucmd, moduleLoaded, cnullDir, visited>>
    /\ UNCHANGED <<retryVars, hugeVars, supVars, mainVars, auxVars>>

\* setup, main.rs:464-466: disable_iostats (main.rs:582-592); then setup returns Ok
SetupIostats ==
    /\ pc = "setup_iostats"
    /\ \E r \in {Ok(0), Err("io")} :
         /\ Finish([r EXCEPT !.ctx = IF IsErr(r)
                       THEN <<"Failed to set up module", "Disable iostats">> ELSE @],
                   "prep")
         /\ hist' = [hist EXCEPT !.setups = @ + (IF IsOk(r) THEN 1 ELSE 0),
                                 !.stages = Append(@, "iostats")]
    /\ UNCHANGED <<config, configs, i, k, ucmd, moduleLoaded, cnullDir, visited>>
    /\ UNCHANGED <<retryVars, hugeVars, supVars, mainVars, auxVars>>

\* run_single_workload, main.rs:326-348: the prep pass
Prep ==
    /\ pc = "prep"
    /\ IF config.prep
       THEN \E r \in CommandOutcomes :
              /\ hist' = [hist EXCEPT !.preps = @ + 1,
                                      !.prep = PrepCommand(config),
                                      !.stages = Append(@, "prep")]
              /\ Finish([r EXCEPT !.ctx = IF IsErr(r)
                            THEN <<"Failed to run test", "Prep work failed">> ELSE @],
                        "measure")
       ELSE /\ pc' = "measure"
            /\ UNCHANGED <<status, hist>>
    /\ UNCHANGED <<config, configs, i, k, ucmd, moduleLoaded, cnullDir, visited>>
    /\ UNCHANGED <<retryVars, hugeVars, supVars, mainVars, auxVars>>

\* main.rs:283-291: run_single_workload(..).context("Failed to run test")?
AfterRun(r) == Finish(r, "teardown_cnull")

\* The closure ping (main.rs:424-431): an Err of join or send leaves it by
\* `?` as it is, an Err of error_for_status gains the context "Ping failed"
PingOutcomes == {Ok(0), Err("ping"), Context(Err("ping"), "Ping failed")}

\* What main.rs:349-451 can evaluate to: parse_str, File::create, spawn, wait
\* or try_wait fails and leaves by `?`; check_status of the exit status under
\* the context "Fio workload failed"; with a remote endpoint, a failed ping
MeasureOutcomes(cfg) ==
    {Context(check_status(st), "Fio workload failed") : st \in ExitStatuses}
    \cup {Err("io")}
    \cup (IF cfg.remote THEN {r \in PingOutcomes : IsErr(r)} ELSE {})

\* run_single_workload, main.rs:349-451: the measurement pass.  With a remote
\* endpoint the process is supervised and a failed ping is returned.
Measure ==
    /\ pc = "measure"
    /\ spc = "idle"
    /\ \E r \in MeasureOutcomes(config) :
         /\ hist' = [hist EXCEPT !.measures = @ + 1,
                                 !.fio = FioCommand(config, visited[Len(visited)]),
                                 !.stages = Append(@, "measure")]
         /\ AfterRun(Context(r, "Failed to run test"))
    /\ UNCHANGED <<config, configs, i, k, ucmd, moduleLoaded, cnullDir, visited>>
    /\ UNCHANGED <<retryVars, hugeVars, supVars, mainVars, auxVars>>

\* teardown, main.rs:470-472: teardown_cnull (main.rs:560-568), under
\* run_workloads' context (main.rs:292)
TeardownCnull ==
    /\ pc = "teardown_cnull"
    /\ hist' = [hist EXCEPT !.teardowns = @ + 1]
    /\ IF config.configure_c_nullblk
       THEN \E removed \in BOOLEAN :
              /\ cnullDir' = IF removed THEN FALSE ELSE cnullDir
              /\ Finish(IF removed THEN Ok(0)
                        ELSE Context(Err("io"), "Failed to tear down module"),
                        "teardown_unload")
       ELSE /\ pc' = "teardown_unload"
            /\ UNCHANGED <<status, cnullDir>>
    /\ UNCHANGED <<config, configs, i, k, ucmd, moduleLoaded, visited>>
    /\ UNCHANGED <<retryVars, hugeVars, supVars, mainVars, auxVars>>

\* main.rs:293-295: the progress bar, push_log (main.rs:58-63, 125-135) when
\* a remote endpoint is configured; then on to the next point
PushLog ==
    /\ pc = "push_log"
    /\ hist' = [hist EXCEPT !.completed = @ + 1]
    /\ \E r \in IF config.remote
                THEN unwrap(mem_log(config), "mem_log", {Ok(0), Err("push_log")})
                ELSE {Ok(0)} :
         Finish(r, "point")
    /\ k' = k + 1
    /\ UNCHANGED <<config, configs, i, ucmd, moduleLoaded, cnullDir, visited>>
    /\ UNCHANGED <<retryVars, hugeVars, supVars, mainVars, auxVars>>

----------------------------------------------------------------------------
\* run_single_workload with a remote endpoint: the measurement process under
\* supervision (main.rs:422-444).  Time is counted in seconds from the spawn;
\* it passes while the thread sleeps and while a ping is under way.

\* main.rs:436, Duration::from_secs(60)
PingInterval == 60
\* main.rs:440, Duration::from_secs(1)
PollInterval == 1

SupIdle ==
    /\ spc = "idle"
    /\ now = 0
    /\ last_ping = 0
    /\ pings = << >>
    /\ pingFailures = 0
    /\ exitTime = -1
    /\ exitStatus = Exited(0)
    /\ sresult = NoResult

\* d seconds pass; a process that still runs may exit in them, with any
\* status, and has exited when the clock reaches MaxClock
Elapse(d) ==
    /\ now' = now + d
    /\ IF exitTime >= 0 \/ d = 0
       THEN UNCHANGED <<exitTime, exitStatus>>
       ELSE \/ /\ now + d < MaxClock
               /\ UNCHANGED <<exitTime, exitStatus>>
            \/ /\ exitTime' \in (now + 1)..(now + d)
               /\ exitStatus' \in ExitStatuses

\* main.rs:433-434: command.spawn()?, then last_ping = Instant::now()
SupSpawn ==
    /\ pc = "measure"
    /\ spc = "spawn"
    /\ \E started \in BOOLEAN :
         IF started
         THEN /\ spc' = "check"
              /\ \/ UNCHANGED <<exitTime, exitStatus>>
                 \/ /\ exitTime' = 0
                    /\ exitStatus' \in ExitStatuses
              /\ UNCHANGED sresult
         ELSE /\ spc' = "ret"
              /\ sresult' = Err("io")
              /\ UNCHANGED <<exitTime, exitStatus>>
    /\ now' = 0
    /\ last_ping' = 0
    /\ UNCHANGED <<pings, pingFailures>>
    /\ UNCHANGED <<sweepVars, retryVars, hugeVars, mainVars, auxVars>>

\* a ping as soon as the interval is reached
PingDueAtInterval(elapsed) == elapsed >= PingInterval

\* main.rs:436: Instant::now() - last_ping > Duration::from_secs(60)
PingDue(elapsed) == elapsed > PingInterval

\* main.rs:436, the head of an iteration of the loop
SupCheck ==
    /\ pc = "measure"
    /\ spc = "check"
    /\ spc' = IF PingDue(now - last_ping) THEN "ping" ELSE "sleep"
    /\ UNCHANGED <<now, last_ping, pings, pingFailures, exitTime, exitStatus, sresult>>
    /\ UNCHANGED <<sweepVars, retryVars, hugeVars, mainVars, auxVars>>

\* a ping whose failure is dropped: the loop goes on
SupPingIgnoresFailure ==
    /\ pc = "measure"
    /\ spc = "ping"
    /\ pings' = Append(pings, now)
    /\ \E r \in PingOutcomes, d \in 0..MaxPingTime :
         /\ Elapse(d)
         /\ pingFailures' = pingFailures + (IF IsOk(r) THEN 0 ELSE 1)
         /\ last_ping' = now'
         /\ spc' = "sleep"
         /\ UNCHANGED sresult
    /\ UNCHANGED <<sweepVars, retryVars, hugeVars, mainVars, auxVars>>

\* main.rs:437-438: ping()?, then last_ping = Instant::now()
SupPing ==
    /\ pc = "measure"
    /\ spc = "ping"
    /\ pings' = Append(pings, now)
    /\ \E r \in PingOutcomes, d \in 0..MaxPingTime :
         /\ Elapse(d)
         /\ IF IsOk(r)
            THEN /\ last_ping' = now'
                 /\ spc' = "sleep"
                 /\ UNCHANGED <<pingFailures, sresult>>
            ELSE /\ pingFailures' = pingFailures + 1
                 /\ sresult' = r
                 /\ spc' = "ret"
                 /\ UNCHANGED last_ping
    /\ UNCHANGED <<sweepVars, retryVars, hugeVars, mainVars, auxVars>>

\* main.rs:440: std::thread::sleep(Duration::from_secs(1)), which sleeps for
\* at least that long
SupSleep ==
    /\ pc = "measure"
    /\ spc = "sleep"
    /\ \E d \in PollInterval..(PollInterval + MaxOvershoot) : Elapse(d)
    /\ spc' = "try_wait"
    /\ UNCHANGED <<last_ping, pings, pingFailures, sresult>>
    /\ UNCHANGED <<sweepVars, retryVars, hugeVars, mainVars, auxVars>>

\* main.rs:441-443: child.try_wait()?; an exit status ends the loop with
\* ret.check_status().context("Fio workload failed")
SupTryWait ==
    /\ pc = "measure"
    /\ spc = "try_wait"
    /\ \E waited \in BOOLEAN :
         IF ~waited
         THEN /\ sresult' = Err("io")
              /\ spc' = "ret"
         ELSE IF exitTime >= 0
         THEN LET r == Context(check_status(exitStatus), "Fio workload failed") IN
              /\ sresult' = r
              /\ spc' = IF IsPanic(r) THEN "panic" ELSE "ret"
         ELSE /\ spc' = "check"
              /\ UNCHANGED sresult
    /\ UNCHANGED <<now, last_ping, pings, pingFailures, exitTime, exitStatus>>
    /\ UNCHANGED <<sweepVars, retryVars, hugeVars, mainVars, auxVars>>

\* run_single_workload has returned to run_workloads (main.rs:283-291)
SupReturn ==
    /\ pc = "measure"
    /\ spc = "ret"
    /\ hist' = [hist EXCEPT !.measures = @ + 1,
                            !.fio = FioCommand(config, visited[Len(visited)]),
                            !.stages = Append(@, "measure")]
    /\ AfterRun(Context(sresult, "Failed to run test"))
    /\ UNCHANGED <<config, configs, i, k, ucmd, moduleLoaded, cnullDir, visited>>
    /\ UNCHANGED <<retryVars, hugeVars, supVars, mainVars, auxVars>>

\* check_status has panicked: the process ends
SupPanic ==
    /\ pc = "measure"
    /\ spc = "panic"
    /\ pc' = "panicked"
    /\ status' = sresult
    /\ hist' = [hist EXCEPT !.measures = @ + 1,
                            !.fio = FioCommand(config, visited[Len(visited)]),
                            !.stages = Append(@, "measure")]
    /\ UNCHANGED <<config, configs, i, k, ucmd, moduleLoaded, cnullDir, visited>>
    /\ UNCHANGED <<retryVars, hugeVars, supVars, mainVars, auxVars>>

\* main has not been entered
MainIdle ==
    /\ mpc = "idle"
    /\ mresult = NoResult
    /\ sweepResult = NoResult
    /\ shutdownCode = -1
    /\ exitResult = NoResult
    /\ verifies = 0
    /\ effects = << >>

\* teardown_cnull and setup_cnull have not been entered
CnullIdle ==
    /\ device = ""
    /\ tree = << >>
    /\ tremoved = {}
    /\ tpc = "idle"
    /\ tnext = 0
    /\ tattempted = {}
    /\ tres = NoResult
    /\ cpc = "idle"
    /\ cdir = FALSE
    /\ cfiles = << >>
    /\ cres = NoResult

\* set_nr_hugepages has not been entered
PagesIdle ==
    /\ ppc = "idle"
    /\ pnr = 0
    /\ pool = 0
    /\ pwritten = << >>
    /\ pdata = << >>
    /\ pres = NoResult

\* MemoryAppender::new (logging.rs:89-94), nothing logged
LogIdle ==
    /\ buffer = << >>
    /\ mutex = "free"
    /\ lpc = "idle"
    /\ lrecord = << >>
    /\ dpc = "idle"
    /\ new_buffer = << >>
    /\ logged = << >>
    /\ delivered = << >>

AuxIdle == CnullIdle /\ PagesIdle /\ LogIdle

SweepIdle ==
    /\ config = [samples |-> 0]
    /\ pc = "idle"
    /\ configs = << >>
    /\ i = 0
    /\ k = 0
    /\ status = NoResult
    /\ ucmd = 0
    /\ moduleLoaded = FALSE
    /\ cnullDir = FALSE
    /\ visited = << >>
    /\ hist = NoHist

\* run_workloads is entered with a verified configuration (main.rs:33,
\* config.rs:244) on a host in any state: the configured module loaded or
\* not, a simulated device left behind or not
Init ==
    /\ config \in Configs
    /\ pc = "start"
    /\ configs = << >>
    /\ i = 0
    /\ k = 0
    /\ status = NoResult
    /\ ucmd = 0
    /\ moduleLoaded \in (IF config.module THEN BOOLEAN ELSE {FALSE})
    /\ cnullDir \in BOOLEAN
    /\ visited = << >>
    /\ hist = NoHist
    /\ RetryIdle
    /\ HugeIdle
    /\ SupIdle
    /\ MainIdle
    /\ AuxIdle

Next ==
    \/ Start
    \/ PreTeardownCnull
    \/ PreUnload
    \/ LoadOnce
    \/ Tune
    \/ NewBar
    \/ Sample
    \/ NextPoint
    \/ SetupLoad
    \/ SetupCnull
    \/ SetupScheduler
    \/ SetupIostats
    \/ Prep
    \/ Measure
    \/ TeardownCnull
    \/ TeardownUnload
    \/ PushLog
    \/ UnloadReturn
    \/ UnloadPanic
    \/ RetryCall
    \/ RetryLoop
    \/ RetrySpawn
    \/ RetryWait
    \/ RetryWaitError
    \/ RetrySleep

Spec == Init /\ [][Next]_vars

----------------------------------------------------------------------------
\* spawn_retry on its own: any retry_max in 0..MaxRetry

InitRetry ==
    /\ SweepIdle
    /\ HugeIdle
    /\ SupIdle
    /\ MainIdle
    /\ AuxIdle
    /\ rpc = "call"
    /\ retry_max \in 0..MaxRetry
    /\ retry_cnt = 0
    /\ rresult = NoResult
    /\ spawns = 0
    /\ sleeps = 0
    /\ attempts = << >>

NextRetry ==
    \/ RetryCall
    \/ RetryLoop
    \/ RetrySpawn
    \/ RetryWait
    \/ RetryWaitError
    \/ RetrySleep

SpecRetry == InitRetry /\ [][NextRetry]_vars

----------------------------------------------------------------------------
\* The huge-page functions on their own

InitHuge ==
    /\ SweepIdle
    /\ RetryIdle
    /\ SupIdle
    /\ MainIdle
    /\ AuxIdle
    /\ hres = NoResult
    /\ \/ /\ hpc = "int"
          /\ hargs \in InQueueDepths \X InBlockSizes \X InJobCounts
          /\ haxes = NoAxes
       \/ /\ hpc = "config"
          /\ hargs = NoArgs
          /\ haxes \in [jobcounts : SeqsUpTo(AxisJobCounts, MaxAxisLen),
                        block_sizes : SeqsUpTo(AxisBlockSizes, MaxAxisLen),
                        queue_depths : SeqsUpTo(AxisQueueDepths, MaxAxisLen)]

NextHuge ==
    \/ CalcInt
    \/ CalcConfig

SpecHuge == InitHuge /\ [][NextHuge]_vars

----------------------------------------------------------------------------
\* main and run_test (main.rs:29-86) around run_workloads

\* run_test returns r by `?` (main.rs:46-81): main goes on at main.rs:37
RunTestReturns(r) ==
    /\ mresult' = r
    /\ mpc' = "shutdown"

\* main.rs:30: logging::init_log()? (logging.rs:15-25)
MainInitLog ==
    /\ mpc = "init_log"
    /\ \E r \in {Ok(0), Err("log")} :
         IF IsOk(r)
         THEN /\ mpc' = "parse"
              /\ UNCHANGED exitResult
         ELSE /\ mpc' = "exited"
              /\ exitResult' = r
    /\ UNCHANGED <<mresult, sweepResult, shutdownCode, verifies, effects>>
    /\ UNCHANGED <<sweepVars, retryVars, hugeVars, supVars, auxVars>>

\* main.rs:33: Config::parse()? (config.rs:220-251).  The configuration is
\* extracted from the files and the command line, or that fails; it is
\* verified; with --dump-config the process exits with code 0.
MainParse ==
    /\ mpc = "parse"
    /\ \E extracted \in BOOLEAN, dump_config \in BOOLEAN :
         IF ~extracted
         THEN /\ exitResult' = Err("config")
              /\ mpc' = "exited"
              /\ UNCHANGED verifies
         ELSE /\ verifies' = verifies + 1
              /\ IF IsErr(verify(config))
                 THEN /\ exitResult' = verify(config)
                      /\ mpc' = "exited"
                 ELSE IF dump_config
                 THEN /\ exitResult' = Ok(0)
                      /\ mpc' = "exited"
                 ELSE /\ mpc' = "batch_dir"
                      /\ UNCHANGED exitResult
    /\ UNCHANGED <<mresult, sweepResult, shutdownCode, effects>>
    /\ UNCHANGED <<sweepVars, retryVars, hugeVars, supVars, auxVars>>

\* run_test, main.rs:45-48: get_batch_dir (main.rs:161-192) when output is
\* captured
MainBatchDir ==
    /\ mpc = "batch_dir"
    /\ IF config.capture
       THEN /\ effects' = Append(effects, "create_dir")
            /\ \E r \in {Ok(0), Context(Err("io"), "failed to create batch dir")} :
                 IF IsOk(r)
                 THEN /\ mpc' = "setup_log"
                      /\ UNCHANGED mresult
                 ELSE RunTestReturns(r)
       ELSE /\ mpc' = "setup_log"
            /\ UNCHANGED <<mresult, effects>>
    /\ UNCHANGED <<sweepResult, shutdownCode, exitResult, verifies>>
    /\ UNCHANGED <<sweepVars, retryVars, hugeVars, supVars, auxVars>>

\* run_test, main.rs:50-54: logging::setup_log (logging.rs:44-80) opens the
\* log file in the batch directory
MainSetupLog ==
    /\ mpc = "setup_log"
    /\ IF config.capture
       THEN /\ effects' = Append(effects, "log file")
            /\ \E r \in {Ok(0), Err("log")} :
                 IF IsOk(r)
                 THEN /\ mpc' = "uname"
                      /\ UNCHANGED mresult
                 ELSE RunTestReturns(r)
       ELSE /\ mpc' = "uname"
            /\ UNCHANGED <<mresult, effects>>
    /\ UNCHANGED <<sweepResult, shutdownCode, exitResult, verifies>>
    /\ UNCHANGED <<sweepVars, retryVars, hugeVars, supVars, auxVars>>

\* run_test, main.rs:65: print_uname()? (main.rs:88-103)
MainUname ==
    /\ mpc = "uname"
    /\ effects' = Append(effects, "uname")
    /\ \E r \in {Context(check_status(st), "uname failed") : st \in ExitStatuses}
                \cup {Err("io"), Context(Err("utf-8"), "Failed to convert uname to utf-8")} :
         IF IsOk(r)
         THEN /\ mpc' = "run_workloads"
              /\ UNCHANGED mresult
         ELSE IF IsPanic(r)
         THEN /\ mpc' = "aborted"
              /\ mresult' = r
         ELSE RunTestReturns(r)
    /\ UNCHANGED <<sweepResult, shutdownCode, exitResult, verifies>>
    /\ UNCHANGED <<sweepVars, retryVars, hugeVars, supVars, auxVars>>

\* run_test, main.rs:66: run_workloads is called
MainRunWorkloads ==
    /\ mpc = "run_workloads"
    /\ pc = "idle"
    /\ pc' = "start"
    /\ mpc' = "in_sweep"
    /\ UNCHANGED <<config, configs, i, k, status, ucmd, moduleLoaded, cnullDir, visited, hist>>
    /\ UNCHANGED <<mresult, sweepResult, shutdownCode, exitResult, verifies, effects>>
    /\ UNCHANGED <<retryVars, hugeVars, supVars, auxVars>>

\* run_test, main.rs:66-73: run_workloads has returned its status, or the
\* process has ended in a panic
MainSweepReturns ==
    /\ mpc = "in_sweep"
    /\ pc \in {"done", "panicked"}
    /\ sweepResult' = status
    /\ mpc' = IF pc = "done" THEN "final_push_log" ELSE "aborted"
    /\ UNCHANGED <<mresult, shutdownCode, exitResult, verifies, effects>>
    /\ UNCHANGED <<sweepVars, retryVars, hugeVars, supVars, auxVars>>

\* run_test, main.rs:75: push_log()? (main.rs:58-63, 125-135)
MainPushLog ==
    /\ mpc = "final_push_log"
    /\ IF config.remote
       THEN \E r \in unwrap(mem_log(config), "mem_log", {Ok(0), Err("push_log")}) :
              IF IsPanic(r)
              THEN /\ mpc' = "aborted"
                   /\ mresult' = r
                   /\ UNCHANGED effects
              ELSE /\ effects' = Append(effects, "push_log")
                   /\ IF IsOk(r)
                      THEN /\ mpc' = "compress"
                           /\ UNCHANGED mresult
                      ELSE RunTestReturns(r)
       ELSE /\ mpc' = "compress"
            /\ UNCHANGED <<mresult, effects>>
    /\ UNCHANGED <<sweepResult, shutdownCode, exitResult, verifies>>
    /\ UNCHANGED <<sweepVars, retryVars, hugeVars, supVars, auxVars>>

\* run_test, main.rs:77-79: compress (main.rs:105-123)
MainCompress ==
    /\ mpc = "compress"
    /\ IF config.capture /\ config.compress
       THEN \E r \in unwrap(output_dir(config), "output_dir", {Ok(0), Err("io")}) :
              IF IsPanic(r)
              THEN /\ mpc' = "aborted"
                   /\ mresult' = r
                   /\ UNCHANGED effects
              ELSE /\ effects' = Append(effects, "compress")
                   /\ IF IsOk(r)
                      THEN /\ mpc' = "upload"
                           /\ UNCHANGED mresult
                      ELSE RunTestReturns(r)
       ELSE /\ mpc' = "upload"
            /\ UNCHANGED <<mresult, effects>>
    /\ UNCHANGED <<sweepResult, shutdownCode, exitResult, verifies>>
    /\ UNCHANGED <<sweepVars, retryVars, hugeVars, supVars, auxVars>>

\* run_test, main.rs:80-85: upload (main.rs:137-146) of the archive, then
\* the status of run_workloads is returned
MainUpload ==
    /\ mpc = "upload"
    /\ IF config.capture /\ config.compress /\ config.remote
       THEN \E r \in unwrap(output_dir(config), "output_dir", {Ok(0), Err("upload")}) :
              IF IsPanic(r)
              THEN /\ mpc' = "aborted"
                   /\ mresult' = r
                   /\ UNCHANGED effects
              ELSE /\ effects' = Append(effects, "upload")
                   /\ RunTestReturns(IF IsOk(r) THEN sweepResult ELSE r)
       ELSE /\ RunTestReturns(sweepResult)
            /\ UNCHANGED effects
    /\ UNCHANGED <<sweepResult, shutdownCode, exitResult, verifies>>
    /\ UNCHANGED <<sweepVars, retryVars, hugeVars, supVars, auxVars>>

\* a shutdown call that reports success whatever the status
ShutdownCodeAlwaysZero(st) == 0

\* shutdown, main.rs:149-152
ShutdownCode(st) == IF IsOk(st) THEN 0 ELSE 1

\* main.rs:37-41: shutdown (main.rs:148-159) when a remote endpoint is
\* configured; main returns the error of shutdown, or the status of run_test
MainShutdown ==
    /\ mpc = "shutdown"
    /\ IF config.remote
       THEN /\ shutdownCode' = ShutdownCode(mresult)
            /\ effects' = Append(effects, "shutdown")
            /\ \E r \in {Ok(0), Err("shutdown")} :
                 exitResult' = IF IsOk(r) THEN mresult ELSE r
       ELSE /\ exitResult' = mresult
            /\ UNCHANGED <<shutdownCode, effects>>
    /\ mpc' = "exited"
    /\ UNCHANGED <<mresult, sweepResult, verifies>>
    /\ UNCHANGED <<sweepVars, retryVars, hugeVars, supVars, auxVars>>

\* The default flags with a remote endpoint, so with capture and compress
\* (config.rs:205-215)
RemoteFlags ==
    [DefaultFlags EXCEPT !.capture = TRUE, !.compress = TRUE, !.remote = TRUE]

\* Every combination of the flags, accepted by Config::verify or not
AllFlags ==
    [prep : BOOLEAN, module : BOOLEAN, insmod : BOOLEAN, modprobe : BOOLEAN,
     module_reload_policy : {"Always", "Once"}, configure_c_nullblk : BOOLEAN,
     capture : BOOLEAN, compress : BOOLEAN, remote : BOOLEAN]

\* The configurations main is run on: every combination of flags with one
\* point and one sample, and the default flags, alone and with a remote
\* endpoint, on the thin shapes
MainConfigs ==
    {WithAxes(f, 1, [a \in 1..4 |-> 1]) : f \in AllFlags}
    \cup {WithAxes(f, n, sh) : f \in {DefaultFlags, RemoteFlags},
                               n \in 1..MaxSamples, sh \in ThinShapes}

InitMain ==
    /\ config \in MainConfigs
    /\ pc = "idle"
    /\ configs = << >>
    /\ i = 0
    /\ k = 0
    /\ status = NoResult
    /\ ucmd = 0
    /\ moduleLoaded \in (IF config.module THEN BOOLEAN ELSE {FALSE})
    /\ cnullDir \in BOOLEAN
    /\ visited = << >>
    /\ hist = NoHist
    /\ RetryIdle
    /\ HugeIdle
    /\ SupIdle
    /\ AuxIdle
    /\ mpc = "init_log"
    /\ mresult = NoResult
    /\ sweepResult = NoResult
    /\ shutdownCode = -1
    /\ exitResult = NoResult
    /\ verifies = 0
    /\ effects = << >>

NextMain ==
    \/ MainInitLog
    \/ MainParse
    \/ MainBatchDir
    \/ MainSetupLog
    \/ MainUname
    \/ MainRunWorkloads
    \/ MainSweepReturns
    \/ MainPushLog
    \/ MainCompress
    \/ MainUpload
    \/ MainShutdown
    \/ Start
    \/ PreTeardownCnull
    \/ PreUnload
    \/ LoadOnce
    \/ Tune
    \/ NewBar
    \/ Sample
    \/ NextPoint
    \/ SetupLoad
    \/ SetupCnull
    \/ SetupScheduler
    \/ SetupIostats
    \/ Prep
    \/ Measure
    \/ TeardownCnull
    \/ TeardownUnload
    \/ PushLog
    \/ UnloadReturn
    \/ UnloadPanic
    \/ RetryCall
    \/ RetryLoop
    \/ RetrySpawn
    \/ RetryWait
    \/ RetryWaitError
    \/ RetrySleep

SpecMain == InitMain /\ [][NextMain]_vars

----------------------------------------------------------------------------
\* The supervision on its own: run_workloads is at the measurement of the
\* first point, with a remote endpoint configured (so with capture and
\* compress, config.rs:205-215)

InitSupervise ==
    /\ config = WithAxes(RemoteFlags, 1, [a \in 1..4 |-> 1])
    /\ pc = "measure"
    /\ configs = Product(config)
    /\ i = 0
    /\ k = 1
    /\ status = NoResult
    /\ ucmd = 0
    /\ moduleLoaded = FALSE
    /\ cnullDir = FALSE
    /\ visited = <<Point(configs[1])>>
    /\ hist = [NoHist EXCEPT !.setups = 1,
                             !.stages = <<"load", "scheduler", "iostats">>]
    /\ RetryIdle
    /\ HugeIdle
    /\ MainIdle
    /\ AuxIdle
    /\ spc = "spawn"
    /\ now = 0
    /\ last_ping = 0
    /\ pings = << >>
    /\ pingFailures = 0
    /\ exitTime = -1
    /\ exitStatus = Exited(0)
    /\ sresult = NoResult

NextSupervise ==
    \/ SupSpawn
    \/ SupCheck
    \/ SupPing
    \/ SupSleep
    \/ SupTryWait
    \/ SupReturn
    \/ SupPanic

SpecSupervise == InitSupervise /\ [][NextSupervise]_vars

----------------------------------------------------------------------------
\* The control tree of the simulated device: teardown_cnull (main.rs:560-568)
\* as run_workloads calls it before the sweep (main.rs:231-233), then
\* setup_cnull (main.rs:526-558) on the device, step by step

\* The longest listing of the control tree
MaxEntries == 3

\* What read_dir can yield for an entry: a directory of a device or a plain
\* file, and the call on it that fails, if any: the iterator's item (entry?),
\* file_type()? or remove_dir(..)?
Entries ==
    [name : {"nullb0", "nullb1"}, kind : {"dir"},
     fault : {"none", "entry", "file_type", "remove_dir"}]
    \cup [name : {"features"}, kind : {"file"}, fault : {"none", "entry", "file_type"}]

\* The listings: no name twice
Listings ==
    {l \in SeqsUpTo(Entries, MaxEntries) :
        \A m, n \in DOMAIN l : m # n => l[m].name # l[n].name}

\* The control files with power, which instantiates the device, written first
ControlFilesPowerFirst ==
    <<[name |-> "power",           value |-> "1"],
      [name |-> "blocksize",       value |-> "4096"],
      [name |-> "completion_nsec", value |-> "0"],
      [name |-> "irqmode",         value |-> "0"],
      [name |-> "queue_mode",      value |-> "2"],
      [name |-> "hw_queue_depth",  value |-> "256"],
      [name |-> "memory_backed",   value |-> "1"],
      [name |-> "size",            value |-> "4096"],
      [name |-> "poll_queues",     value |-> "0"]>>

\* main.rs:547-555: the control files and their values, in the order written
ControlFiles ==
    <<[name |-> "blocksize",       value |-> "4096"],
      [name |-> "completion_nsec", value |-> "0"],
      [name |-> "irqmode",         value |-> "0"],
      [name |-> "queue_mode",      value |-> "2"],
      [name |-> "hw_queue_depth",  value |-> "256"],
      [name |-> "memory_backed",   value |-> "1"],
      [name |-> "size",            value |-> "4096"],
      [name |-> "poll_queues",     value |-> "0"],
      [name |-> "power",           value |-> "1"]>>

\* The directory of the device is in the tree
DeviceDirExists ==
    \/ cdir
    \/ \E n \in DOMAIN tree :
          tree[n].name = device /\ tree[n].kind = "dir" /\ n \notin tremoved

\* main.rs:231-233: teardown_cnull is called for the device nullb0 only
TcSkip ==
    /\ tpc = "read_dir"
    /\ device # "nullb0"
    /\ tpc' = "returned"
    /\ cpc' = "create_dir"
    /\ UNCHANGED <<device, tree, tremoved, tnext, tattempted, tres, cdir, cfiles, cres>>
    /\ UNCHANGED <<sweepVars, retryVars, hugeVars, supVars, mainVars, pagesVars, logVars>>

\* main.rs:561: std::fs::read_dir(..)?
TcReadDir ==
    /\ tpc = "read_dir"
    /\ device = "nullb0"
    /\ \E ok \in BOOLEAN :
         IF ok
         THEN /\ tpc' = "entry"
              /\ tnext' = 1
              /\ UNCHANGED <<tres, cpc>>
         ELSE /\ tpc' = "returned"
              /\ tres' = Err("io")
              /\ cpc' = "create_dir"
              /\ UNCHANGED tnext
    /\ UNCHANGED <<device, tree, tremoved, tattempted, cdir, cfiles, cres>>
    /\ UNCHANGED <<sweepVars, retryVars, hugeVars, supVars, mainVars, pagesVars, logVars>>

\* main.rs:561-566: the body of the loop for one entry; every `?` returns
\* from teardown_cnull
TcEntry ==
    /\ tpc = "entry"
    /\ tnext <= Len(tree)
    /\ LET e == tree[tnext]
           calls == e.fault \notin {"entry", "file_type"} /\ e.kind = "dir"
       IN  /\ tattempted' = IF calls THEN tattempted \cup {tnext} ELSE tattempted
           /\ tremoved' = IF calls /\ e.fault = "none" THEN tremoved \cup {tnext}
                                                      ELSE tremoved
           /\ IF e.fault = "none"
              THEN /\ tnext' = tnext + 1
                   /\ UNCHANGED <<tpc, tres, cpc>>
              ELSE /\ tpc' = "returned"
                   /\ tres' = Err("io")
                   /\ cpc' = "create_dir"
                   /\ UNCHANGED tnext
    /\ UNCHANGED <<device, tree, cdir, cfiles, cres>>
    /\ UNCHANGED <<sweepVars, retryVars, hugeVars, supVars, mainVars, pagesVars, logVars>>

\* main.rs:567: the loop is over, Ok(())
TcReturn ==
    /\ tpc = "entry"
    /\ tnext > Len(tree)
    /\ tpc' = "returned"
    /\ tres' = Ok(0)
    /\ cpc' = "create_dir"
    /\ UNCHANGED <<device, tree, tremoved, tnext, tattempted, cdir, cfiles, cres>>
    /\ UNCHANGED <<sweepVars, retryVars, hugeVars, supVars, mainVars, pagesVars, logVars>>

\* main.rs:532-535: create_dir(control_path).context("create debugfs
\* folder")?; it fails when the directory exists, and may fail otherwise
ScCreateDir ==
    /\ cpc = "create_dir"
    /\ \E ok \in IF DeviceDirExists THEN {FALSE} ELSE BOOLEAN :
         IF ok
         THEN /\ cdir' = TRUE
              /\ cpc' = "write"
              /\ UNCHANGED cres
         ELSE /\ cpc' = "returned"
              /\ cres' = Context(Err("io"), "create debugfs folder")
              /\ UNCHANGED cdir
    /\ UNCHANGED <<device, tree, tremoved, tpc, tnext, tattempted, tres, cfiles>>
    /\ UNCHANGED <<sweepVars, retryVars, hugeVars, supVars, mainVars, pagesVars, logVars>>

\* main.rs:537-555: one write_control_file(name, value).context(name)?: the
\* open may fail, and write_all may fail with the value written or not
ScWrite ==
    /\ cpc = "write"
    /\ Len(cfiles) < Len(ControlFiles)
    /\ LET f == ControlFiles[Len(cfiles) + 1] IN
       \E out \in {"ok", "open", "write_all"}, landed \in BOOLEAN :
         /\ out = "ok" => landed
         /\ out = "open" => ~landed
         /\ cfiles' = IF landed THEN Append(cfiles, f) ELSE cfiles
         /\ IF out = "ok"
            THEN UNCHANGED <<cpc, cres>>
            ELSE /\ cpc' = "returned"
                 /\ cres' = Context(Context(Err("io"),
                                 IF out = "open" THEN "open control file"
                                 ELSE "Failed to write control path"), f.name)
    /\ UNCHANGED <<device, tree, tremoved, tpc, tnext, tattempted, tres, cdir>>
    /\ UNCHANGED <<sweepVars, retryVars, hugeVars, supVars, mainVars, pagesVars, logVars>>

\* main.rs:557: Ok(())
ScReturn ==
    /\ cpc = "write"
    /\ Len(cfiles) = Len(ControlFiles)
    /\ cpc' = "returned"
    /\ cres' = Ok(0)
    /\ UNCHANGED <<device, tree, tremoved, tpc, tnext, tattempted, tres, cdir, cfiles>>
    /\ UNCHANGED <<sweepVars, retryVars, hugeVars, supVars, mainVars, pagesVars, logVars>>

InitCnull ==
    /\ SweepIdle
    /\ RetryIdle
    /\ HugeIdle
    /\ SupIdle
    /\ MainIdle
    /\ PagesIdle
    /\ LogIdle
    /\ device \in {"nullb0", "nullb1"}
    /\ tree \in Listings
    /\ tremoved = {}
    /\ tpc = "read_dir"
    /\ tnext = 0
    /\ tattempted = {}
    /\ tres = NoResult
    /\ cpc = "idle"
    /\ cdir = FALSE
    /\ cfiles = << >>
    /\ cres = NoResult

NextCnull ==
    \/ TcSkip
    \/ TcReadDir
    \/ TcEntry
    \/ TcReturn
    \/ ScCreateDir
    \/ ScWrite
    \/ ScReturn

SpecCnull == InitCnull /\ [][NextCnull]_vars

----------------------------------------------------------------------------
\* set_nr_hugepages (main.rs:630-644) called with the count that
\* calculate_nr_hugepages returns for the axes haxes (main.rs:256-258)

\* format!("{n}"): the decimal digits of n
Digits == <<"0", "1", "2", "3", "4", "5", "6", "7", "8", "9">>

RECURSIVE Decimal(_)
Decimal(n) ==
    IF n < 10 THEN <<Digits[n + 1]>>
    ELSE Append(Decimal(n \div 10), Digits[(n % 10) + 1])

Whitespace == {" ", "\n", "\t"}

\* a trim that leaves the bytes as they are
trimNothing(s) == s

\* str::trim (main.rs:638): the leading and the trailing whitespace removed
RECURSIVE trim(_)
trim(s) ==
    IF s = << >> THEN s
    ELSE IF Head(s) \in Whitespace THEN trim(Tail(s))
    ELSE IF s[Len(s)] \in Whitespace THEN trim(SubSeq(s, 1, Len(s) - 1))
    ELSE s

\* What the kernel makes of a request for nr pages: all of them, or fewer
\* when memory is short
KernelGrants(nr) == {nr, 0} \cup {v \in {nr - 1, nr \div 10} : v >= 0}

\* main.rs:256-257: if config.use_hugepages, calculate_nr_hugepages(config)?
\* and the call of set_nr_hugepages
PagesCall ==
    /\ pc = "tune_hugepages"
    /\ ppc = "call"
    /\ \E use_hugepages \in BOOLEAN :
         LET r == calculate_nr_hugepages(haxes) IN
         IF ~use_hugepages
         THEN /\ pc' = "new_bar"
              /\ ppc' = "idle"
              /\ UNCHANGED <<status, pnr>>
         ELSE IF IsErr(r)
         THEN /\ Finish(r, "new_bar")
              /\ ppc' = "idle"
              /\ UNCHANGED pnr
         ELSE /\ pnr' = r.code
              /\ ppc' = "write"
              /\ UNCHANGED <<pc, status>>
    /\ UNCHANGED <<pool, pwritten, pdata, pres>>
    /\ UNCHANGED <<config, configs, i, k, ucmd, moduleLoaded, cnullDir, visited, hist>>
    /\ UNCHANGED <<retryVars, hugeVars, supVars, mainVars, cnullVars, logVars>>

\* main.rs:632-635: the file opened for writing, and write_all of the count
\* and a newline under the context "Failed to set number of hugepages"
PagesWrite ==
    /\ ppc = "write"
    /\ \E out \in {"ok", "open", "write_all"} :
         IF out = "ok"
         THEN /\ pwritten' = Decimal(pnr) \o <<"\n">>
              /\ pool' \in KernelGrants(pnr)
              /\ ppc' = "read"
              /\ UNCHANGED pres
         ELSE /\ pres' = IF out = "open" THEN Err("io")
                         ELSE Context(Err("io"), "Failed to set number of hugepages")
              /\ ppc' = "returned"
              /\ UNCHANGED <<pool, pwritten>>
    /\ UNCHANGED <<pnr, pdata>>
    /\ UNCHANGED <<sweepVars, retryVars, hugeVars, supVars, mainVars, cnullVars, logVars>>

\* main.rs:637: std::fs::read of the file, which holds the size of the pool
\* and a newline
PagesRead ==
    /\ ppc = "read"
    /\ \E ok \in BOOLEAN :
         IF ok
         THEN /\ pdata' = Decimal(pool) \o <<"\n">>
              /\ ppc' = "compare"
              /\ UNCHANGED pres
         ELSE /\ pres' = Err("io")
              /\ ppc' = "returned"
              /\ UNCHANGED pdata
    /\ UNCHANGED <<pnr, pool, pwritten>>
    /\ UNCHANGED <<sweepVars, retryVars, hugeVars, supVars, mainVars, cnullVars, logVars>>

\* main.rs:638-643: the trimmed text compared with format!("{nr}")
PagesCompare ==
    /\ ppc = "compare"
    /\ pres' = IF trim(pdata) # Decimal(pnr)
               THEN Err("Failed to set number of huge pages")
               ELSE Ok(0)
    /\ ppc' = "returned"
    /\ UNCHANGED <<pnr, pool, pwritten, pdata>>
    /\ UNCHANGED <<sweepVars, retryVars, hugeVars, supVars, mainVars, cnullVars, logVars>>

\* main.rs:257: the `?` on what set_nr_hugepages returned
PagesReturn ==
    /\ pc = "tune_hugepages"
    /\ ppc = "returned"
    /\ Finish(pres, "new_bar")
    /\ ppc' = "idle"
    /\ UNCHANGED <<pnr, pool, pwritten, pdata, pres>>
    /\ UNCHANGED <<config, configs, i, k, ucmd, moduleLoaded, cnullDir, visited, hist>>
    /\ UNCHANGED <<retryVars, hugeVars, supVars, mainVars, cnullVars, logVars>>

\* run_workloads is at main.rs:256 with the axes haxes, the pool of any size
InitPages ==
    /\ config = [samples |-> 0]
    /\ pc = "tune_hugepages"
    /\ configs = << >>
    /\ i = 0
    /\ k = 0
    /\ status = NoResult
    /\ ucmd = 0
    /\ moduleLoaded = FALSE
    /\ cnullDir = FALSE
    /\ visited = << >>
    /\ hist = NoHist
    /\ RetryIdle
    /\ SupIdle
    /\ MainIdle
    /\ CnullIdle
    /\ LogIdle
    /\ hpc = "idle"
    /\ hargs = NoArgs
    /\ haxes \in [jobcounts : SeqsUpTo(AxisJobCounts, MaxAxisLen),
                   block_sizes : SeqsUpTo(AxisBlockSizes, MaxAxisLen),
                   queue_depths : SeqsUpTo(AxisQueueDepths, MaxAxisLen)]
    /\ hres = NoResult
    /\ ppc = "call"
    /\ pnr = 0
    /\ pool = 0
    /\ pwritten = << >>
    /\ pdata = << >>
    /\ pres = NoResult

NextPages ==
    \/ PagesCall
    \/ PagesWrite
    \/ PagesRead
    \/ PagesCompare
    \/ PagesReturn

SpecPages == InitPages /\ [][NextPages]_vars

----------------------------------------------------------------------------
\* MemoryAppender (logging.rs:82-116): log() called by a thread that logs,
\* data() by the thread that pushes the log (main.rs:127), both through the
\* mutex of the buffer

\* The number of records logged in a run of the model
MaxRecords == 3

\* The number of calls of data() in a run of the model
MaxData == 3

\* The encoded records: one or two bytes
Records == {<<"a">>, <<"b", "c">>}

\* a swap that copies a into b and leaves a as it is
copyInto(a, b) == <<a, a>>

\* std::mem::swap (logging.rs:99): the values of a and b exchanged
swap(a, b) == <<b, a>>

\* logging.rs:111: log() takes the mutex
LogLock ==
    /\ lpc = "idle"
    /\ mutex = "free"
    /\ Len(logged) + Len(lrecord) < 2 * MaxRecords
    /\ \E r \in Records :
         /\ Len(logged) + Len(r) <= 2 * MaxRecords
         /\ lrecord' = r
    /\ mutex' = "log"
    /\ lpc' = "locked"
    /\ UNCHANGED <<buffer, dpc, new_buffer, logged, delivered>>
    /\ UNCHANGED <<sweepVars, retryVars, hugeVars, supVars, mainVars, cnullVars, pagesVars>>

\* logging.rs:112-113: the record encoded onto the end of the buffer, and
\* the guard dropped
LogEncode ==
    /\ lpc = "locked"
    /\ buffer' = buffer \o lrecord
    /\ logged' = logged \o lrecord
    /\ lrecord' = << >>
    /\ mutex' = "free"
    /\ lpc' = "idle"
    /\ UNCHANGED <<dpc, new_buffer, delivered>>
    /\ UNCHANGED <<sweepVars, retryVars, hugeVars, supVars, mainVars, cnullVars, pagesVars>>

\* logging.rs:97-98: data() takes the mutex; new_buffer is a new Vec
DataLock ==
    /\ dpc = "idle"
    /\ mutex = "free"
    /\ Len(delivered) < MaxData
    /\ mutex' = "data"
    /\ new_buffer' = << >>
    /\ dpc' = "locked"
    /\ UNCHANGED <<buffer, lpc, lrecord, logged, delivered>>
    /\ UNCHANGED <<sweepVars, retryVars, hugeVars, supVars, mainVars, cnullVars, pagesVars>>

\* logging.rs:99: std::mem::swap(&mut buffer.0, &mut new_buffer)
DataSwap ==
    /\ dpc = "locked"
    /\ buffer' = swap(buffer, new_buffer)[1]
    /\ new_buffer' = swap(buffer, new_buffer)[2]
    /\ dpc' = "swapped"
    /\ UNCHANGED <<mutex, lpc, lrecord, logged, delivered>>
    /\ UNCHANGED <<sweepVars, retryVars, hugeVars, supVars, mainVars, cnullVars, pagesVars>>

\* logging.rs:100-101: new_buffer returned, the guard dropped
DataReturn ==
    /\ dpc = "swapped"
    /\ delivered' = Append(delivered, new_buffer)
    /\ new_buffer' = << >>
    /\ mutex' = "free"
    /\ dpc' = "idle"
    /\ UNCHANGED <<buffer, lpc, lrecord, logged>>
    /\ UNCHANGED <<sweepVars, retryVars, hugeVars, supVars, mainVars, cnullVars, pagesVars>>

InitLog ==
    /\ SweepIdle
    /\ RetryIdle
    /\ HugeIdle
    /\ SupIdle
    /\ MainIdle
    /\ CnullIdle
    /\ PagesIdle
    /\ LogIdle

NextLog ==
    \/ LogLock
    \/ LogEncode
    \/ DataLock
    \/ DataSwap
    \/ DataReturn

SpecLog == InitLog /\ [][NextLog]_vars

----------------------------------------------------------------------------
\* spawn_retry: the claims, under SpecRetry

\* Every process waited for so far exited with a non-zero code
AllAttemptsFailed ==
    \A n \in DOMAIN attempts : attempts[n].how = "exited" /\ attempts[n].code # 0

\* C3: spawn_retry with retry_max = 0 returns the invalid-argument error at
\* once: after its first step it has returned that error, and it has spawned
\* nothing and slept never.
C3_ZeroRetryMaxFailsWithoutSpawn ==
    (retry_max = 0 /\ rpc # "call") =>
        /\ rpc = "ret"
        /\ rresult = Err("Invalid retry count value")
        /\ spawns = 0
        /\ sleeps = 0
        /\ attempts = << >>

C3_Witness == rpc = "ret" /\ retry_max = 0 /\ IsErr(rresult)

\* C4: with retry_max = N >= 1 and a process that exits non-zero on every
\* attempt, spawn_retry returns after exactly N spawns with the error of the
\* N-th attempt; it never spawns more than N times, and the unreachable!()
\* after the loop is never reached.
C4_AlwaysFailingSpawnsExactlyN ==
    /\ spawns <= retry_max
    /\ ~(IsPanic(rresult) /\ rresult.what = "unreachable")
    /\ (rpc \in {"call", "loop", "spawn", "wait", "sleep"} /\ retry_max >= 1)
          => retry_cnt < retry_max
    /\ (rpc = "ret" /\ retry_max >= 1 /\ AllAttemptsFailed /\ Len(attempts) = spawns) =>
          /\ spawns = retry_max
          /\ rresult = ProcessFailed(attempts[retry_max].code)

C4_Witness ==
    /\ rpc = "ret"
    /\ retry_max = 3
    /\ Len(attempts) = 3
    /\ AllAttemptsFailed
    /\ attempts[1].code # attempts[3].code
    /\ rresult = ProcessFailed(attempts[3].code)

\* C5: when spawn_retry returns Ok, the attempt that succeeded is the last
\* one made, attempt k <= retry_max; the k-1 attempts before it failed and
\* each was followed by one delay, so there were exactly k spawns and k-1
\* delays.  While it runs, every failed attempt has been followed by at most
\* one delay, then one more spawn.
C5_SuccessShortCircuits ==
    /\ (rpc = "ret" /\ IsOk(rresult)) =>
          LET n == Len(attempts) IN
          /\ n >= 1
          /\ n <= retry_max
          /\ attempts[n] = Exited(0)
          /\ \A m \in 1..(n - 1) : attempts[m].how = "exited" /\ attempts[m].code # 0
          /\ spawns = n
          /\ sleeps = n - 1
    /\ rpc \in {"loop", "spawn"} => (sleeps = Len(attempts) /\ spawns = Len(attempts))
    /\ rpc = "wait" => (sleeps = Len(attempts) /\ spawns = Len(attempts) + 1)
    /\ rpc = "sleep" => (sleeps = Len(attempts) - 1 /\ spawns = Len(attempts))

C5_Witness ==
    /\ rpc = "ret"
    /\ IsOk(rresult)
    /\ Len(attempts) = 3
    /\ spawns = 3
    /\ sleeps = 2

----------------------------------------------------------------------------
\* Huge-page sizing: the claims, under SpecHuge

MiB == Pow2(20)

\* ceil((block_size * queue_depth + extra) / 2 MiB), in huge pages
HugePagesFor(queue_depth, block_size, extra) ==
    (block_size \div huge_page_size) * queue_depth
    + ((block_size % huge_page_size) * queue_depth + extra + huge_page_size - 1)
          \div huge_page_size

\* The two-stage rounding, counted in huge pages: block_size * queue_depth
\* plus 4095 rounded up to whole huge pages; that plus 4095 rounded up to
\* whole huge pages again; times jobcount.
ReferencePages(queue_depth, block_size, jobcount) ==
    LET stage1 == HugePagesFor(queue_depth, block_size, 4095)
        stage2 == stage1 + (4095 + huge_page_size - 1) \div huge_page_size
    IN  jobcount * stage2

\* C6: calculate_nr_hugepages_int equals the two-stage rounding reference,
\* and yields 24 for (128, 32 KiB, 6), 2 for (8, 32 KiB, 1), 2 for
\* (8, 4 KiB, 1) and 1026 for (128, 16 MiB, 1).
C6_TwoStageRounding ==
    (hpc = "done" /\ hargs # NoArgs) =>
        /\ hres = Ok(ReferencePages(hargs[1], hargs[2], hargs[3]))
        /\ hargs = <<128, 32 * 1024, 6>> => hres = Ok(24)
        /\ hargs = <<8, 32 * 1024, 1>> => hres = Ok(2)
        /\ hargs = <<8, 4 * 1024, 1>> => hres = Ok(2)
        /\ hargs = <<128, 16 * MiB, 1>> => hres = Ok(1026)

C6_Witness == hpc = "done" /\ hargs = <<128, 16 * MiB, 1>> /\ hres = Ok(1026)

\* C7: the page count is linear in the job count: the result for
\* (queue_depth, block_size, jobcount) is jobcount times the result for
\* (queue_depth, block_size, 1); it is 1026 * 6 for (128, 16 MiB, 6).
C7_LinearInJobCount ==
    (hpc = "done" /\ hargs # NoArgs) =>
        /\ IsOk(hres)
        /\ hres.code = hargs[3] * calculate_nr_hugepages_int(hargs[1], hargs[2], 1).code
        /\ hargs = <<128, 16 * MiB, 6>> => hres.code = 1026 * 6

C7_Witness == hpc = "done" /\ hargs = <<128, 16 * MiB, 6>> /\ hres.code = 6156

SetMax(S) == CHOOSE x \in S : \A y \in S : y <= x
Range(f) == {f[n] : n \in DOMAIN f}

\* C8: calculate_nr_hugepages is calculate_nr_hugepages_int at the largest
\* queue depth, the largest block size in bytes and the largest job count,
\* each taken over its own axis, so it covers every point of the product of
\* the axes; block sizes {512, 16 MiB} with queue depths {1, 128} and job
\* count 1 give 1026 in either order; an empty axis is an error.
C8_MaximaTakenPerAxis ==
    (hpc = "done" /\ hargs = NoArgs) =>
        IF haxes.jobcounts = << >> \/ haxes.block_sizes = << >> \/ haxes.queue_depths = << >>
        THEN IsErr(hres)
        ELSE LET qd == SetMax(Range(haxes.queue_depths))
                 bs == SetMax({ParseBytes(b) : b \in Range(haxes.block_sizes)})
                 jc == SetMax(Range(haxes.jobcounts))
             IN  /\ hres = Ok(ReferencePages(qd, bs, jc))
                 /\ \A q \in Range(haxes.queue_depths), b \in Range(haxes.block_sizes),
                       j \in Range(haxes.jobcounts) :
                         hres.code >= ReferencePages(q, ParseBytes(b), j)
                 /\ (/\ Range(haxes.block_sizes)
                          = {[num |-> 512, unit |-> ""], [num |-> 16, unit |-> "MiB"]}
                     /\ Range(haxes.queue_depths) = {1, 128}
                     /\ Range(haxes.jobcounts) = {1}) => hres = Ok(1026)

C8_Witness ==
    /\ hpc = "done"
    /\ haxes.block_sizes = <<[num |-> 512, unit |-> ""], [num |-> 16, unit |-> "MiB"]>>
    /\ haxes.queue_depths = <<128, 1>>
    /\ haxes.jobcounts = <<1>>
    /\ hres = Ok(1026)

----------------------------------------------------------------------------
\* run_workloads: the claims, under Spec

\* run_workloads is between two points, or has returned
BetweenPoints == pc \in {"sample", "point", "setup_load", "done"}

\* C1: every point whose setup completed has its teardown performed exactly
\* once, whether its prep and measurement succeeded or failed: whenever
\* run_workloads is between two points or has returned, teardown has been
\* called as many times as setup has completed.
C1_TeardownAfterEveryCompletedSetup ==
    BetweenPoints => hist.teardowns = hist.setups

\* The n-th point of a sample, by index arithmetic on the axes: block size
\* outermost, then job count, then workload, queue depth innermost
NestedPoint(cfg, n) ==
    LET nj == Len(cfg.jobcounts)
        nw == Len(cfg.workloads)
        nq == Len(cfg.queue_depths)
    IN  [block_size  |-> cfg.block_sizes[((n - 1) \div (nj * nw * nq)) + 1],
         jobcount    |-> cfg.jobcounts[(((n - 1) \div (nw * nq)) % nj) + 1],
         workload    |-> cfg.workloads[(((n - 1) \div nq) % nw) + 1],
         queue_depth |-> cfg.queue_depths[((n - 1) % nq) + 1]]

PointsPerSample(cfg) ==
    Len(cfg.block_sizes) * Len(cfg.jobcounts) * Len(cfg.workloads) * Len(cfg.queue_depths)

\* C2: in every sample the points are visited in nested order, block size
\* outermost, then job count, then workload, queue depth innermost; no
\* combination is visited twice, and a sample that ran to its end visited
\* |block_sizes| * |jobcounts| * |workloads| * |queue_depths| points, 16 for
\* axes of lengths 2, 2, 2, 2.
C2_NestedLexicographicOrder ==
    /\ Len(visited) <= PointsPerSample(config)
    /\ \A n \in DOMAIN visited : visited[n] = NestedPoint(config, n)
    /\ \A m, n \in DOMAIN visited : m # n => visited[m] # visited[n]
    /\ (pc = "sample" /\ i > 0) =>
          /\ Len(visited) = PointsPerSample(config)
          /\ (/\ Len(config.block_sizes) = 2 /\ Len(config.jobcounts) = 2
              /\ Len(config.workloads) = 2 /\ Len(config.queue_depths) = 2)
                => Len(visited) = 16

C2_Witness ==
    /\ pc = "sample"
    /\ i = 2
    /\ Len(visited) = 16
    /\ visited[1].queue_depth # visited[2].queue_depth
    /\ visited[1].block_size = visited[8].block_size
    /\ visited[8].block_size # visited[9].block_size

OncePolicy == config.module /\ config.module_reload_policy = "Once"
AlwaysPolicy == config.module /\ config.module_reload_policy = "Always"

\* C9: under policy Once with a module configured, load_module is invoked
\* exactly once, after the pre-sweep unload and before the tuning steps and
\* the first point's setup, and no unload_module is invoked after that load.
C9_OnceLoadsOnceNeverUnloads ==
    OncePolicy =>
        /\ hist.loads <= 1
        /\ hist.unloadsAfterLoad = 0
        /\ pc \in {"start", "pre_cnull", "pre_unload", "load_once"} => hist.loads = 0
        /\ pc \notin {"start", "pre_cnull", "pre_unload", "load_once", "done", "panicked"}
              => hist.loads = 1
        /\ Len(visited) > 0 => hist.loads = 1

C9_Witness ==
    /\ OncePolicy
    /\ pc = "done"
    /\ IsOk(status)
    /\ hist.completed >= 2
    /\ hist.loads = 1
    /\ hist.unloads = 1

\* C10: under policy Always with a module configured, as long as nothing has
\* failed, every point has one load, the first step of its setup, and one
\* unload, the last step of its teardown, with its measurement in between;
\* when the setup of the next point starts the module is not loaded.
C10_AlwaysBracketsEveryPoint ==
    (AlwaysPolicy /\ status = NoResult) =>
        /\ pc \in {"sample", "point", "setup_load"} =>
              /\ hist.loads = hist.completed
              /\ hist.unloadsAfterLoad = hist.completed
              /\ hist.measures = hist.completed
              /\ hist.completed > 0 => ~moduleLoaded
        /\ pc \in {"setup_cnull", "setup_sched", "setup_iostats", "prep", "measure"} =>
              /\ hist.loads = hist.completed + 1
              /\ hist.unloadsAfterLoad = hist.completed
              /\ hist.measures = hist.completed
              /\ moduleLoaded
        /\ pc = "teardown_cnull" \/ (pc = "teardown_unload" /\ rpc = "idle") =>
              /\ hist.loads = hist.completed + 1
              /\ hist.unloadsAfterLoad = hist.completed
              /\ hist.measures = hist.completed + 1
              /\ moduleLoaded
        /\ (pc = "teardown_unload" /\ rpc # "idle") \/ pc = "push_log" =>
              /\ hist.loads = hist.completed + 1
              /\ hist.unloadsAfterLoad = hist.completed + 1
              /\ hist.measures = hist.completed + 1
        /\ pc = "push_log" => ~moduleLoaded

C10_Witness ==
    /\ AlwaysPolicy
    /\ status = NoResult
    /\ pc = "setup_load"
    /\ hist.completed = 1
    /\ hist.loads = 1
    /\ hist.unloadsAfterLoad = 1
    /\ ~moduleLoaded

\* The positions of run_workloads before the first sample (main.rs:220-266)
PreSweepPcs ==
    {"start", "pre_cnull", "pre_unload", "load_once", "new_bar"}
    \cup {TuneSteps[n].pc : n \in DOMAIN TuneSteps}

\* The errors the Once-policy load and the tuning steps return, as
\* run_workloads passes them on
PreSweepErrors ==
    {[r EXCEPT !.ctx = <<"Load module once">>] : r \in {o \in CommandOutcomes : IsErr(o)}}
    \cup UNION {{[r EXCEPT !.ctx = TuneSteps[n].ctx] :
                    r \in {o \in TuneOutcomes(TuneSteps[n].pc) : IsErr(o)}} :
                n \in DOMAIN TuneSteps}

NoPointTouched ==
    /\ visited = << >>
    /\ hist.setups = 0
    /\ hist.preps = 0
    /\ hist.measures = 0
    /\ hist.teardowns = 0
    /\ hist.completed = 0

----------------------------------------------------------------------------
\* The supervision of the measurement process: the claims, under SpecSupervise

\* C12: a failed liveness ping is not swallowed: after the first failed ping
\* run_single_workload has returned that ping's error, without another ping,
\* sleep or poll (no time but the ping's own has passed), and run_workloads
\* then returns it under the context "Failed to run test", the point's
\* teardown and the rest of the sweep left out.
C12_PingFailureIsFatal ==
    /\ pingFailures > 0 =>
          /\ pingFailures = 1
          /\ spc = "ret"
          /\ IsErr(sresult)
          /\ sresult \in PingOutcomes
          /\ now - pings[Len(pings)] <= MaxPingTime
          /\ last_ping < pings[Len(pings)]
          /\ pc \in {"measure", "done"}
          /\ pc = "done" => status = Context(sresult, "Failed to run test")
    /\ pc = "teardown_cnull" => (IsOk(sresult) /\ pingFailures = 0)

C12_Witness ==
    /\ pc = "done"
    /\ pingFailures = 1
    /\ Len(pings) = 2
    /\ status.ctx = <<"Failed to run test", "Ping failed">>

\* C13: a ping is sent only when more than 60 seconds have passed since the
\* spawn or since the ping before it returned: every ping is sent more than
\* 60 s after the one before it (the first more than 60 s after the spawn),
\* and a process that exits within 60 s of its spawn is sent no ping.
C13_PingsMoreThanSixtySecondsApart ==
    /\ \A n \in DOMAIN pings :
          pings[n] - (IF n = 1 THEN 0 ELSE pings[n - 1]) > PingInterval
    /\ spc = "ping" => now - last_ping > PingInterval
    /\ last_ping <= now
    /\ (pings # << >> /\ pingFailures = 0 /\ spc # "ping") => last_ping >= pings[Len(pings)]
    /\ exitTime \in 0..PingInterval => pings = << >>

C13_Witness ==
    /\ spc = "ret"
    /\ IsOk(sresult)
    /\ Len(pings) = 2
    /\ pings[1] = PingInterval + 1
    /\ exitTime > pings[2]

----------------------------------------------------------------------------
\* main and run_test: the claims, under SpecMain

Rejected(cfg) ==
    \/ cfg.insmod /\ cfg.modprobe
    \/ cfg.module /\ ~cfg.insmod /\ ~cfg.modprobe
    \/ cfg.compress /\ ~cfg.capture
    \/ cfg.remote /\ ~cfg.compress
    \/ cfg.remote /\ ~cfg.capture

\* C14: Config::verify returns an error exactly for the configurations with
\* insmod and modprobe both set, a module with neither, compress without
\* capture, or a remote endpoint without compress or without capture; it is
\* called once, in Config::parse; and a rejected configuration ends the
\* program with that error before run_test: no directory, log file or
\* process, no call to the remote endpoint, and run_workloads never entered.
C14_VerifyRejectsBeforeAnyHostMutation ==
    /\ IsErr(verify(config)) <=> Rejected(config)
    /\ verifies <= 1
    /\ mpc \notin {"init_log", "parse", "exited"} => (verifies = 1 /\ ~Rejected(config))
    /\ Rejected(config) =>
          /\ mpc \in {"init_log", "parse", "exited"}
          /\ pc = "idle"
          /\ hist = NoHist
          /\ effects = << >>
          /\ shutdownCode = -1
          /\ mresult = NoResult
          /\ mpc = "exited" => IsErr(exitResult)
          /\ (mpc = "exited" /\ verifies = 1) => exitResult = verify(config)

C14_Witness ==
    /\ mpc = "exited"
    /\ verifies = 1
    /\ config.module /\ ~config.insmod /\ ~config.modprobe
    /\ ~config.compress /\ ~config.remote
    /\ exitResult = Err("Missing insmod or modprobe option")
    /\ effects = << >>

\* C16 as stated: the shutdown call carries 0 exactly when the sweep
\* succeeded and 1 exactly when it failed, and the process exits successfully
\* exactly when the sweep succeeded.
C16_ShutdownStatusIsSweepStatus ==
    /\ shutdownCode >= 0 => (shutdownCode = 0 <=> IsOk(sweepResult))
    /\ shutdownCode >= 0 => (shutdownCode = 1 <=> ~IsOk(sweepResult))
    /\ (mpc = "exited" /\ sweepResult # NoResult) => (IsOk(exitResult) <=> IsOk(sweepResult))

\* C16 as amended: the shutdown call carries 0 exactly when run_test
\* returned Ok, that is when the sweep succeeded and the log push,
\* compression and upload after it succeeded too, and 1 otherwise; so a 0
\* means the sweep succeeded and a failed sweep is reported as 1.  The
\* process exits successfully only if the sweep succeeded, and with an error
\* whenever the sweep failed or the shutdown call carried 1.
C16_ShutdownStatusIsRunStatus ==
    /\ shutdownCode \in {-1, 0, 1}
    /\ shutdownCode >= 0 =>
          /\ config.remote
          /\ shutdownCode = 0 <=> IsOk(mresult)
          /\ shutdownCode = 0 => (IsOk(sweepResult) /\ mresult = sweepResult)
          /\ ~IsOk(sweepResult) => shutdownCode = 1
          /\ (IsOk(sweepResult) /\ shutdownCode = 1) =>
                (IsErr(mresult) /\ mresult.what \in {"push_log", "io", "upload"})
    /\ (mpc = "exited" /\ config.remote /\ mresult # NoResult) => shutdownCode >= 0
    /\ (mpc = "exited" /\ mresult # NoResult) =>
          /\ IsOk(exitResult) => (IsOk(sweepResult) /\ IsOk(mresult) /\ shutdownCode # 1)
          /\ IsErr(sweepResult) => IsErr(exitResult)
          /\ shutdownCode = 1 => IsErr(exitResult)

C16_Witness ==
    /\ mpc = "exited"
    /\ IsOk(sweepResult)
    /\ hist.completed >= 2
    /\ shutdownCode = 1
    /\ mresult = Err("upload")
    /\ exitResult = Err("upload")

----------------------------------------------------------------------------
\* check_status: the claim, under SpecRetry (every process spawn_retry has
\* waited for went through check_status)

\* C15: check_status returns Ok for a successful exit and, for every other
\* termination, a non-zero exit code or a signal, returns the process-failed
\* error; it never panics, so spawn_retry never ends in a panic.
C15_CheckStatusAlwaysReturns ==
    /\ \A n \in DOMAIN attempts :
          LET r == check_status(attempts[n]) IN
          /\ success(attempts[n]) => IsOk(r)
          /\ ~success(attempts[n]) => (IsErr(r) /\ r = ProcessFailed(attempts[n].code))
    /\ rpc # "panic"
    /\ ~IsPanic(rresult)

----------------------------------------------------------------------------
\* run_workloads: the sample loop (main.rs:268-296), under Spec

\* The samples the loop has entered: those before index i, and sample i
\* itself when a failure ended the run inside it
SamplesEntered == i + (IF IsOk(status) THEN 0 ELSE 1)

\* C17 as stated: every sample index in 0..samples-1 is executed, and a
\* failure reported at a point of an earlier sample does not cause the later
\* samples to be skipped: once run_workloads has returned after measuring,
\* every configured sample has been entered.
C17_EverySampleIsExecuted ==
    (pc = "done" /\ hist.measures > 0) => SamplesEntered = config.samples

\* C17, amended: the samples are executed in order, each one whole, as long
\* as no step fails; a run that returns Ok has executed every sample index
\* in 0..samples-1 at every point; the first failure is returned at once, in
\* the sample it happened in, and no later point or sample is executed.
C17_SamplesRunUntilFirstFailure ==
    /\ i <= config.samples
    /\ pc = "point" => hist.completed = i * PointsPerSample(config) + (k - 1)
    /\ (pc = "done" /\ IsOk(status)) =>
          /\ i = config.samples
          /\ hist.measures = config.samples * PointsPerSample(config)
    /\ IsErr(status) =>
          /\ pc = "done"
          /\ hist.measures > 0 =>
                /\ i < config.samples
                /\ hist.measures <= i * PointsPerSample(config) + Len(visited)
                /\ hist.measures >= i * PointsPerSample(config) + Len(visited) - 1

\* A point of sample 0 failed with a second sample configured: the run has
\* returned the error and sample 1 was never entered
C17_Witness ==
    /\ pc = "done"
    /\ IsErr(status)
    /\ config.samples = 2
    /\ i = 0
    /\ hist.measures = 1
    /\ status.ctx = <<"Failed to run test", "Fio workload failed">>

----------------------------------------------------------------------------
\* The end-to-end scenario, under Spec

\* samples = 1, block_sizes = ["4k"], jobcounts = [1], workloads = ["read"],
\* queue_depths = [1], no capture, no prep, no module, no simulated device
SingleDefaultPoint ==
    /\ config.samples = 1
    /\ config.block_sizes = <<[num |-> 4, unit |-> "k"]>>
    /\ config.jobcounts = <<1>>
    /\ config.workloads = <<"read">>
    /\ config.queue_depths = <<1>>
    /\ ~config.capture /\ ~config.prep /\ ~config.module
    /\ ~config.configure_c_nullblk

\* C18: in the end-to-end scenario a sweep that has returned Ok has spawned
\* the benchmark exactly once, with --blocksize=4096, --numjobs=1,
\* --readwrite=read and --iodepth=1, and has not touched the control tree of
\* the simulated device; and setup_cnull is never called when
\* configure_c_nullblk is false.
C18_DefaultPointSpawnsOneBenchmark ==
    /\ (SingleDefaultPoint /\ pc = "done" /\ IsOk(status)) =>
          /\ hist.measures = 1
          /\ hist.preps = 0
          /\ hist.fio.blocksize = 4096
          /\ hist.fio.numjobs = 1
          /\ hist.fio.readwrite = "read"
          /\ hist.fio.iodepth = 1
          /\ hist.cnullCalls = 0
    /\ ~config.configure_c_nullblk => hist.cnullCalls = 0

----------------------------------------------------------------------------
\* The streams of the benchmark processes, under Spec

\* The streams of command go to the files out and err when capture is set,
\* and are inherited otherwise
StreamsAsConfigured(command, out, err) ==
    IF config.capture
    THEN command.stdout = out /\ command.stderr = err
    ELSE command.stdout = "inherit" /\ command.stderr = "inherit"

\* C19: with capture, every measurement process has its standard output in
\* the point's .stdout file and its standard error in the point's .stderr
\* file, every prep process in -prep.stdout and -prep.stderr; without
\* capture neither stream of either process is redirected.
C19_CaptureRedirectsBothStreams ==
    /\ hist.measures > 0 => StreamsAsConfigured(hist.fio, ".stdout", ".stderr")
    /\ hist.preps > 0 =>
          StreamsAsConfigured(hist.prep, "-prep.stdout", "-prep.stderr")

----------------------------------------------------------------------------
\* The stages of a point, under Spec

\* The forward stages of a point of cfg in the order required: the module
\* load under the policy Always only, the simulated device when configured,
\* the scheduler, the iostats; then the prep pass when configured, and the
\* measurement
SetupStagesFor(cfg) ==
    (IF cfg.module_reload_policy = "Always" THEN <<"load">> ELSE << >>)
    \o (IF cfg.configure_c_nullblk THEN <<"cnull">> ELSE << >>)
    \o <<"scheduler", "iostats">>

StagesFor(cfg) ==
    SetupStagesFor(cfg) \o (IF cfg.prep THEN <<"prep">> ELSE << >>) \o <<"measure">>

IsPrefix(s, t) == Len(s) <= Len(t) /\ \A n \in DOMAIN s : s[n] = t[n]

\* The context a failure of a setup stage is reported under
StageName(stage) ==
    CASE stage = "load"      -> "Load module always"
      [] stage = "cnull"     -> "setup cnull"
      [] stage = "scheduler" -> "Set block scheduler"
      [] stage = "iostats"   -> "Disable iostats"

SetupFailed ==
    IsErr(status) /\ status.ctx # << >> /\ status.ctx[1] = "Failed to set up module"

----------------------------------------------------------------------------
\* Teardown after a failed setup, under Spec

\* setup left something behind for teardown to undo: the module it loads
\* under the policy Always, or the control directory of the simulated device
SetupLeftovers ==
    \/ AlwaysPolicy /\ moduleLoaded /\ "load" \in Range(hist.stages)
    \/ /\ config.configure_c_nullblk /\ cnullDir /\ "cnull" \in Range(hist.stages)
       /\ "create debugfs folder" \notin Range(status.ctx)

\* C21: teardown is attempted whatever the outcome of the point, also when
\* setup fails part-way: when run_workloads has returned the error of a
\* setup stage that failed after the module was loaded or after the control
\* directory was created, teardown has been called for that point too, once
\* more than the points completed before it.
C21_TeardownAfterFailedSetup ==
    (pc = "done" /\ SetupFailed /\ SetupLeftovers) =>
        hist.teardowns = hist.completed + 1

----------------------------------------------------------------------------
\* teardown_cnull and setup_cnull: the claims, under SpecCnull

\* C22: teardown_cnull treats every device on its own: once it has returned
\* from a control tree it could list, remove_dir has been called on every
\* subdirectory that could be inspected, whether or not the removal or the
\* inspection of another entry failed.
C22_EverySubdirectoryRemovalAttempted ==
    (tpc = "returned" /\ tnext > 0) =>
        \A n \in DOMAIN tree :
            (tree[n].kind = "dir" /\ tree[n].fault \notin {"entry", "file_type"})
                => n \in tattempted

\* The order required of the control files
RequiredOrder ==
    <<"blocksize", "completion_nsec", "irqmode", "queue_mode", "hw_queue_depth",
      "memory_backed", "size", "poll_queues", "power">>

\* C23: setup_cnull creates the directory of the device before it writes any
\* control file, and writes the control files in the order blocksize,
\* completion_nsec, irqmode, queue_mode, hw_queue_depth, memory_backed, size,
\* poll_queues, power: power is written last, and only after the directory
\* was created and the eight files before it were written; setup_cnull
\* returns Ok only when all nine were written.
C23_PowerWrittenLast ==
    /\ IsPrefix([n \in DOMAIN cfiles |-> cfiles[n].name], RequiredOrder)
    /\ cfiles # << >> => cdir
    /\ \A n \in DOMAIN cfiles :
          cfiles[n].name = "power" =>
              /\ n = 9
              /\ cdir
              /\ \A m \in 1..8 : cfiles[m].name = RequiredOrder[m]
    /\ IsOk(cres) => (Len(cfiles) = 9 /\ cfiles[9].name = "power")
    /\ (IsErr(cres) /\ Len(cfiles) < 9) =>
          \A n \in DOMAIN cfiles : cfiles[n].name # "power"

\* setup_cnull created the directory, wrote the eight files and then power,
\* and returned Ok
C23_Witness ==
    /\ cpc = "returned"
    /\ IsOk(cres)
    /\ cdir
    /\ Len(cfiles) = 9
    /\ cfiles[9] = [name |-> "power", value |-> "1"]

----------------------------------------------------------------------------
\* The pre-sweep cleanup, under Spec

\* A step taken during the cleanup leaves run_workloads running with nothing
\* returned, in the cleanup or at the Once-policy load
CleanupStepGoesOn ==
    pc \in {"pre_cnull", "pre_unload"} =>
        (pc' \in {"pre_cnull", "pre_unload", "load_once"} /\ status' = NoResult)

\* C24: the pre-sweep cleanup is best-effort: whatever the stale device
\* teardown and the pre-sweep module unload come to, the exhaustion of the
\* three attempts included, the failure is dropped and run_workloads goes on
\* to the Once-policy load.
C24_PreSweepCleanupIsBestEffort == [][CleanupStepGoesOn]_vars

----------------------------------------------------------------------------
\* The measurement process at the return of run_single_workload, under
\* SpecSupervise

\* The process was spawned and has not exited
ChildRunning == now > 0 /\ exitTime < 0

\* C25: run_single_workload returns only after the benchmark process has
\* exited: at every return, with Ok or with an error, a ping error included,
\* no process it spawned is still running.
C25_NoChildRunningAtReturn ==
    spc = "ret" => ~ChildRunning

----------------------------------------------------------------------------
\* The archive of the batch directory, under SpecMain

\* C26: with capture and compress, the batch directory is archived once the
\* sweep has completed, whether run_workloads returned Ok or an error, and
\* whether or not a remote call failed in between: when run_test has
\* returned after the sweep, compress has been called.
C26_ArchivedAfterEverySweep ==
    (/\ mpc \in {"shutdown", "exited"}
     /\ sweepResult # NoResult
     /\ config.capture /\ config.compress) =>
        "compress" \in Range(effects)

----------------------------------------------------------------------------
\* set_nr_hugepages: the claims, under SpecPages

\* The error of a pool that is not of the requested size
NotHonoured == Err("Failed to set number of huge pages")

\* C27: set_nr_hugepages writes the requested count, reads the value back
\* and returns an error whenever the value read back is not the requested
\* count: it returns Ok only when the pool has the requested size; and with
\* use_hugepages the error, like every error of set_nr_hugepages, is
\* returned by run_workloads before any point is executed.
C27_ReadBackMismatchIsAnError ==
    /\ pwritten # << >> => pwritten = Decimal(pnr) \o <<"\n">>
    /\ pdata # << >> => pwritten # << >>
    /\ (pres # NoResult /\ pdata # << >>) =>
          /\ pool # pnr => pres = NotHonoured
          /\ pool = pnr => IsOk(pres)
    /\ IsOk(pres) => (pdata # << >> /\ pool = pnr)
    /\ pres = NotHonoured => (pdata # << >> /\ pool # pnr)
    /\ (IsErr(pres) /\ ppc = "idle") =>
          (pc = "done" /\ status = pres /\ hist = NoHist /\ visited = << >>)
    /\ pc = "new_bar" => ~IsErr(pres)

\* 24 pages were requested and the kernel made 2: the text read back, "2",
\* begins the requested "24"; the error has ended the sweep
C27_Witness ==
    /\ pnr = 24
    /\ pool = 2
    /\ pdata = <<"2", "\n">>
    /\ pres = NotHonoured
    /\ pc = "done"
    /\ status = NotHonoured

----------------------------------------------------------------------------
\* MemoryAppender: the claims, under SpecLog

\* The results of the calls of data(), one after the other
RECURSIVE Concat(_)
Concat(ss) == IF ss = << >> THEN << >> ELSE Head(ss) \o Concat(Tail(ss))

\* C28: every logged byte is delivered exactly once and in order, whatever
\* the interleaving of log() and data(): what the calls of data() have
\* returned, then what a call under way has taken, then what the buffer
\* holds, is the logged byte stream; data() leaves the buffer empty; and
\* log() and data() never hold the buffer together.
C28_EveryByteDeliveredOnce ==
    /\ Concat(delivered) \o new_buffer \o buffer = logged
    /\ dpc = "swapped" => buffer = << >>
    /\ ~(lpc = "locked" /\ dpc # "idle")
    /\ (dpc = "idle" /\ lpc = "idle" /\ buffer = << >>) => Concat(delivered) = logged

\* Two calls of data() with records logged before the first and between the
\* two: each returned what was logged since the one before
C28_Witness ==
    /\ delivered = << <<"a">>, <<"b", "c", "a">> >>
    /\ logged = <<"a", "b", "c", "a">>
    /\ buffer = << >>
    /\ dpc = "idle"

----------------------------------------------------------------------------
\* The Options of run_test, under SpecMain

\* main has got past Config::parse: the configuration was accepted
Accepted == mpc \notin {"init_log", "parse", "exited"} \/ effects # << >>

\* The process has not ended on the unwrap of a None in run_test
NoUnwrapOfNone ==
    /\ ~(IsPanic(status) /\ status.what \in {"mem_log", "output_dir"})
    /\ ~(IsPanic(mresult) /\ mresult.what \in {"mem_log", "output_dir"})

\* C29: in every configuration Config::verify accepts a remote endpoint comes
\* with capture; so wherever push_log is attempted with a remote endpoint the
\* in-memory log handle is Some(..) and no unwrap of run_test panics, and
\* every compress and upload comes after the creation of the batch directory.
C29_RemoteImpliesCapture ==
    /\ IsOk(verify(config)) => (config.remote => config.capture)
    /\ Accepted => (config.remote => config.capture)
    /\ (config.remote /\ (pc = "push_log" \/ mpc = "final_push_log")) => mem_log(config)
    /\ NoUnwrapOfNone
    /\ \A n \in DOMAIN effects :
          effects[n] \in {"push_log", "compress", "upload"}
              => /\ output_dir(config)
                 /\ \E m \in 1..(n - 1) : effects[m] = "create_dir"

\* A run with a remote endpoint that has pushed the log after the sweep,
\* archived the batch directory and uploaded the archive
C29_Witness ==
    /\ config.remote
    /\ hist.completed >= 1
    /\ \E n \in DOMAIN effects :
          /\ n + 2 \in DOMAIN effects
          /\ effects[n] = "push_log"
          /\ effects[n + 1] = "compress"
          /\ effects[n + 2] = "upload"
====
